---- MODULE Spec2Model ----
(***************************************************************************)
(* Verification model of the God-Simulation planet pipeline.               *)
(*                                                                         *)
(* Number representation.  f32/f64 values are modelled in fixed point with *)
(* three decimal digits (the integer v stands for v/1000); a product or a  *)
(* quotient is rounded toward minus infinity.  The IEEE value NaN, which   *)
(* the code can produce by 0/0, is the distinguished value NaN: every      *)
(* arithmetic operator propagates it and every comparison with it is       *)
(* false, as in IEEE arithmetic.  u32 arithmetic wraps modulo U32Mod (a    *)
(* narrowed word, TLC integers being 32 bit signed).                       *)
(***************************************************************************)
EXTENDS Integers, Sequences, FiniteSets, TLC

\* ------------------------------------------------------------------------
\* Bounds of the model
\* ------------------------------------------------------------------------
MaxDim == 3
MaxSeed == 2
MaxPlates == 2
MaxErosion == 1

\* ------------------------------------------------------------------------
\* Fixed-point arithmetic (f32 / f64)
\* ------------------------------------------------------------------------
S == 10 * 100
NegS == 0 - S
NaN == 0 - 2 * 10 ^ 9
Inf == 10 ^ 9
\* the largest finite magnitude (f32 narrowed): a result beyond it is infinite
FltMax == 2 * 10 ^ 6
NegMax == 0 - FltMax
Half == FltMax \div 2
NegHalf == 0 - Half
U32Mod == 2 ^ 10

IsNum(a) == a # NaN
IsInf(a) == a = Inf \/ a = 0 - Inf
Sign(a) == IF a < 0 THEN 0 - 1 ELSE 1
Overflow(v) == IF v > FltMax THEN Inf ELSE IF v < 0 - FltMax THEN 0 - Inf ELSE v

\* (first line: two finite operands whose sum cannot overflow)
FAdd(a, b) ==
    IF a > NegHalf /\ a < Half /\ b > NegHalf /\ b < Half THEN a + b
    ELSE IF a = NaN \/ b = NaN THEN NaN
    ELSE IF IsInf(a) THEN (IF b = 0 - a THEN NaN ELSE a)
    ELSE IF IsInf(b) THEN b
    ELSE Overflow(a + b)
FSub(a, b) == IF b = NaN THEN NaN ELSE FAdd(a, 0 - b)
\* (first two lines: two finite operands whose product cannot overflow)
FMul(a, b) ==
    IF a >= NegS /\ a <= S /\ b >= NegMax /\ b <= FltMax THEN (a * b) \div S
    ELSE IF b >= NegS /\ b <= S /\ a >= NegMax /\ a <= FltMax THEN (a * b) \div S
    ELSE IF a = NaN \/ b = NaN THEN NaN
    ELSE IF IsInf(a) \/ IsInf(b)
         THEN (IF a = 0 \/ b = 0 THEN NaN ELSE Sign(a) * Sign(b) * Inf)
    ELSE IF a # 0 /\ Sign(b) * b > (FltMax * S) \div (Sign(a) * a)
         THEN Sign(a) * Sign(b) * Inf
    ELSE (a * b) \div S
FDiv(a, b) ==
    IF a = NaN \/ b = NaN THEN NaN
    ELSE IF IsInf(a) THEN (IF IsInf(b) THEN NaN ELSE Sign(b) * a)
    ELSE IF IsInf(b) THEN 0
    ELSE IF b = 0 THEN (IF a = 0 THEN NaN ELSE IF a > 0 THEN Inf ELSE 0 - Inf)
    ELSE Overflow((a * S) \div b)
FLt(a, b) == a # NaN /\ b # NaN /\ a < b
FLe(a, b) == a # NaN /\ b # NaN /\ a <= b
FGt(a, b) == FLt(b, a)
\* std::min(a, b) is (b < a) ? b : a ; std::max(a, b) is (a < b) ? b : a
FMin(a, b) == IF FLt(b, a) THEN b ELSE a
FMax(a, b) == IF FLt(a, b) THEN b ELSE a
\* std::clamp(v, lo, hi) is (v < lo) ? lo : (hi < v) ? hi : v
FClamp(v, lo, hi) == IF FLt(v, lo) THEN lo ELSE IF FLt(hi, v) THEN hi ELSE v
FAbs(a) == IF a = NaN THEN NaN ELSE IF a < 0 THEN 0 - a ELSE a

U32Sub(a, b) == (a - b) % U32Mod

RECURSIVE SqrtIter(_, _)
SqrtIter(n, r) == IF r * r <= n THEN r ELSE SqrtIter(n, (r + n \div r) \div 2)
\* integer square root: the largest r with r*r <= n
ISqrt(n) == IF n <= 0 THEN 0 ELSE SqrtIter(n, IF n < 46340 THEN n ELSE 46340)
\* std::sqrt of a fixed-point value
FSqrt(a) == ISqrt(a * S)

\* ------------------------------------------------------------------------
\* RNG (core/rng/RNG.h).  The pcg32 engine is an external library; it is
\* modelled as a 16-bit linear congruential generator whose output is the
\* top byte of the new state.
\* ------------------------------------------------------------------------
EngineMod == 2 ^ 16
EngineOut == 2 ^ 8

RNG(seed) == [engine_ |-> seed % EngineMod, initial_seed_ |-> seed,
              advance_count_ |-> 0, log |-> << >>]

\* engine_(): advance the engine, return the output with the new RNG.
\* `log` is a history of the RNG's callers (one tag per call of a public
\* method), kept for the draw-order properties.
Engine(rng) ==
    LET st == (rng.engine_ * 25173 + 13849) % EngineMod
    IN  [v |-> st \div (EngineMod \div EngineOut), rng |-> [rng EXCEPT !.engine_ = st]]

Tagged(rng, tag) == [rng EXCEPT !.log = Append(@, tag)]

\* next_float(): static_cast<f32>(engine_() >> 8) / 16777216.0f, in [0, 1)
next_float(rng, tag) ==
    LET e == Engine(rng)
    IN  [v |-> (e.v * S) \div EngineOut, rng |-> Tagged(e.rng, tag)]

\* next_float(min, max)
next_float_range(rng, min, max, tag) ==
    LET f == next_float(rng, tag)
    IN  [v |-> min + FMul(f.v, max - min), rng |-> f.rng]

\* next_u64(): (u64(engine_()) << 32) | engine_().  The two calls are
\* operands of one `|`, so which of them runs first is the compiler's
\* choice: hi_first is that choice, fixed for a build.
next_u64(rng, hi_first, tag) ==
    LET a == Engine(rng)
        b == Engine(a.rng)
    IN  [v |-> IF hi_first THEN a.v * EngineOut + b.v ELSE b.v * EngineOut + a.v,
         rng |-> Tagged(b.rng, tag)]

\* ------------------------------------------------------------------------
\* PerlinNoise (core/noise/Noise.h)
\* ------------------------------------------------------------------------
PermSize == 256

RECURSIVE Shuffle(_, _, _, _)
\* Fisher-Yates with the constructor's LCG (narrowed to 16 bits), for the
\* loop indices i, i-1, ..., stop+1
Shuffle(perm, state, i, stop) ==
    IF i <= stop \/ perm[0] < 0 THEN [perm |-> perm, state |-> state]
    ELSE LET st == (state * 25173 + 13849) % EngineMod
             j == (st \div 2) % (i + 1)
         IN  Shuffle([perm EXCEPT ![i] = perm[j], ![j] = perm[i]], st, i - 1, stop)

\* PerlinNoise(seed): the permutation table perm_[0..255].  The loop
\* for (i = 255; i > 0; i--) is run in four stretches.
PerlinNoise(seed) ==
    LET q  == PermSize \div 4
        s0 == [perm |-> [i \in 0 .. PermSize - 1 |-> i], state |-> seed % EngineMod]
        s1 == Shuffle(s0.perm, s0.state, PermSize - 1, 3 * q)
        s2 == Shuffle(s1.perm, s1.state, 3 * q, 2 * q)
        s3 == Shuffle(s2.perm, s2.state, 2 * q, q)
        s4 == Shuffle(s3.perm, s3.state, q, 0)
    IN  s4.perm

\* perm_[k] for k in 0..511 (perm_[256 + i] = perm_[i])
Perm(p, k) == p[k % PermSize]

fade(t) == FMul(FMul(FMul(t, t), t), FMul(t, FMul(t, 6 * S) - 15 * S) + 10 * S)
lerp(a, b, t) == a + FMul(t, b - a)
grad(hash, x, y) ==
    CASE hash % 4 = 0 -> x + y
      [] hash % 4 = 1 -> y - x
      [] hash % 4 = 2 -> x - y
      [] OTHER        -> 0 - x - y

noise(p, x, y) ==
    LET xi == (x \div S) % PermSize
        yi == (y \div S) % PermSize
        xf == x % S
        yf == y % S
        u  == fade(xf)
        v  == fade(yf)
        aa == Perm(p, Perm(p, xi) + yi)
        ab == Perm(p, Perm(p, xi) + yi + 1)
        ba == Perm(p, Perm(p, xi + 1) + yi)
        bb == Perm(p, Perm(p, xi + 1) + yi + 1)
        x1 == lerp(grad(aa, xf, yf), grad(ba, xf - S, yf), u)
        x2 == lerp(grad(ab, xf, yf - S), grad(bb, xf - S, yf - S), u)
    IN  lerp(x1, x2, v)

RECURSIVE FbmLoop(_, _, _, _, _, _, _, _, _, _)
\* the octave loop shared by fbm and ridged: ridge selects (1 - |n|)^2
FbmLoop(p, x, y, i, freq, amplitude, total, max_amplitude, pl, ridge) ==
    IF i <= 0 THEN FDiv(total, max_amplitude)
    ELSE LET n0 == noise(p, FMul(x, freq), FMul(y, freq))
             n  == IF ridge THEN FMul(S - FAbs(n0), S - FAbs(n0)) ELSE n0
         IN  FbmLoop(p, x, y, i - 1, FMul(freq, pl[2]), FMul(amplitude, pl[1]),
                     total + FMul(n, amplitude), max_amplitude + amplitude, pl, ridge)

fbm(p, x, y, octaves, frequency, persistence, lacunarity) ==
    FbmLoop(p, x, y, octaves, frequency, S, 0, 0, <<persistence, lacunarity>>, FALSE)

ridged(p, x, y, octaves, frequency, persistence, lacunarity) ==
    FbmLoop(p, x, y, octaves, frequency, S, 0, 0, <<persistence, lacunarity>>, TRUE)

\* ------------------------------------------------------------------------
\* Heightmap (layers/planetary/Heightmap.h): data_ is a function on
\* 0 .. width*height-1, row-major
\* ------------------------------------------------------------------------
\* data_(width * height, fill): the product is a u32 product
Heightmap(width, height, fill) ==
    [width_ |-> width, height_ |-> height,
     data_ |-> [i \in 0 .. ((width * height) % U32Mod) - 1 |-> fill]]

index(g, x, y) == y * g.width_ + x
get(g, x, y) == g.data_[index(g, x, y)]
set(g, x, y, value) == [g EXCEPT !.data_[index(g, x, y)] = value]
IMin(a, b) == IF b < a THEN b ELSE a
IClamp(v, lo, hi) == IF v < lo THEN lo ELSE IF hi < v THEN hi ELSE v

\* bilinear interpolation at fractional coordinates
sample(g, fx0, fy0) ==
    LET fx == FClamp(fx0, 0, (g.width_ - 1) * S)
        fy == FClamp(fy0, 0, (g.height_ - 1) * S)
        x0 == fx \div S
        y0 == fy \div S
        x1 == IMin(x0 + 1, g.width_ - 1)
        y1 == IMin(y0 + 1, g.height_ - 1)
        tx == fx - x0 * S
        ty == fy - y0 * S
        a  == FMul(get(g, x0, y0), S - tx) + FMul(get(g, x1, y0), tx)
        b  == FMul(get(g, x0, y1), S - tx) + FMul(get(g, x1, y1), tx)
    IN  FMul(a, S - ty) + FMul(b, ty)

RECURSIVE MinOver(_, _, _)
\* std::min_element from cell i on: if (*it < *smallest) smallest = it
MinOver(d, i, acc) ==
    IF i \notin DOMAIN d THEN acc ELSE MinOver(d, i + 1, IF FLt(d[i], acc) THEN d[i] ELSE acc)
RECURSIVE MaxOver(_, _, _)
\* std::max_element from cell i on: if (*largest < *it) largest = it
MaxOver(d, i, acc) ==
    IF i \notin DOMAIN d THEN acc ELSE MaxOver(d, i + 1, IF FLt(acc, d[i]) THEN d[i] ELSE acc)
Size(g) == Cardinality(DOMAIN g.data_)
min_value(g) == MinOver(g.data_, 1, g.data_[0])
max_value(g) == MaxOver(g.data_, 1, g.data_[0])

RECURSIVE MinMaxOver(_, _, _)
\* std::minmax_element from cell i on: the first smallest and the last largest,
\* if (*it < *min) min = it; else if (!(*it < *max)) max = it
MinMaxOver(d, i, acc) ==
    IF i \notin DOMAIN d THEN acc
    ELSE MinMaxOver(d, i + 1,
                    IF FLt(d[i], acc.lo) THEN [acc EXCEPT !.lo = d[i]]
                    ELSE IF ~FLt(d[i], acc.hi) THEN [acc EXCEPT !.hi = d[i]]
                    ELSE acc)
minmax_element(g) == MinMaxOver(g.data_, 1, [lo |-> g.data_[0], hi |-> g.data_[0]])

\* if (hi - lo < 1e-8f) return;  (1e-8 is below the resolution: range <= 0)
degenerate(range) == FLe(range, 0)

\* the stretch dividing by the maximum where the code divides by the range
stretch_by_hi(v, lo, hi) == FDiv(FSub(v, lo), hi)

\* f32 range = hi - lo; ... v = (v - lo) / range;
stretch(v, lo, hi) == FDiv(FSub(v, lo), FSub(hi, lo))

\* normalise(): min-max stretch to [0,1]; no-op on a degenerate range
normalise(g) ==
    LET mm == minmax_element(g)
    IN  IF degenerate(FSub(mm.hi, mm.lo)) THEN g
        ELSE [g EXCEPT !.data_ = [i \in DOMAIN g.data_ |-> stretch(g.data_[i], mm.lo, mm.hi)]]

RECURSIVE BlurSum(_, _, _, _, _, _)
\* the two nested dy/dx loops of blur, k enumerating the (2r+1)^2 offsets
BlurSum(g, x, y, radius, k, sum) ==
    LET diam == 2 * radius + 1
    IN  IF k >= diam * diam THEN sum
        ELSE LET dy == (k \div diam) - radius
                 dx == (k % diam) - radius
                 sx == IClamp(x + dx, 0, g.width_ - 1)
                 sy == IClamp(y + dy, 0, g.height_ - 1)
             IN  BlurSum(g, x, y, radius, k + 1, FAdd(sum, get(g, sx, sy)))

blur(g, radius) ==
    LET diam == 2 * radius + 1
        inv  == FDiv(S, diam * diam * S)
    IN  [g EXCEPT !.data_ = [i \in DOMAIN g.data_ |->
            FMul(BlurSum(g, i % g.width_, i \div g.width_, radius, 0, 0), inv)]]

\* fill, add, multiply, clamp: one pass over data_
fill(g, value) == [g EXCEPT !.data_ = [i \in DOMAIN g.data_ |-> value]]
add(g, other, scale) ==
    [g EXCEPT !.data_ = [i \in DOMAIN g.data_ |-> FAdd(g.data_[i], FMul(other.data_[i], scale))]]
multiply(g, scale) == [g EXCEPT !.data_ = [i \in DOMAIN g.data_ |-> FMul(g.data_[i], scale)]]
clamp(g, lo, hi) == [g EXCEPT !.data_ = [i \in DOMAIN g.data_ |-> FClamp(g.data_[i], lo, hi)]]

\* --- BinaryWriter / BinaryReader (core/serialise/BinaryStream.h) ---
\* write_u32: the four bytes of v, low byte first
write_u32(v) == <<v % 256, (v \div 256) % 256, (v \div 65536) % 256, (v \div 2 ^ 24) % 256>>
\* the four bytes at buf[pos + 1 .. pos + 4] as a u32
read_u32(buf, pos) ==
    buf[pos + 1] + 256 * buf[pos + 2] + 65536 * buf[pos + 3] + 2 ^ 24 * buf[pos + 4]
\* the object representation of an f32 cell: the 32-bit two's complement word
\* of its fixed-point value, low byte first
write_f32(v) ==
    LET u == IF v >= 0 THEN v ELSE v + 2 ^ 30 + 2 ^ 30
    IN  <<u % 256, (u \div 256) % 256, (u \div 65536) % 256,
          (u \div 2 ^ 24) + (IF v >= 0 THEN 0 ELSE 128)>>
read_f32(buf, pos) ==
    LET u == buf[pos + 1] + 256 * buf[pos + 2] + 65536 * buf[pos + 3]
             + 2 ^ 24 * (buf[pos + 4] % 128)
    IN  IF buf[pos + 4] >= 128 THEN u - 2 ^ 30 - 2 ^ 30 ELSE u

RECURSIVE write_cells(_, _, _)
\* write_bytes(data_.data(), data_.size() * sizeof(f32))
write_cells(d, i, buf) ==
    IF i \notin DOMAIN d THEN buf ELSE write_cells(d, i + 1, buf \o write_f32(d[i]))

\* the cells written ahead of the dimensions
serialise_cells_first(g, buf) ==
    write_cells(g.data_, 0, buf) \o write_u32(g.width_) \o write_u32(g.height_)

serialise(g, buf) == write_cells(g.data_, 0, buf \o write_u32(g.width_) \o write_u32(g.height_))

BinaryReader(data) == [data_ |-> data, pos_ |-> 0]
\* check_remaining(needed) passes
remaining(reader, needed) == reader.pos_ + needed <= Len(reader.data_)

\* data_.resize(n): the cells kept, new cells zero
resize(d, n) == [i \in 0 .. n - 1 |-> IF i \in DOMAIN d THEN d[i] ELSE 0]

\* width_ * height_ as the u32 product it is
cells_of(w, h) == (w * h) % U32Mod

\* deserialise(reader): the grid it leaves, and whether a read threw
deserialise(g, reader) ==
    IF ~remaining(reader, 4) THEN [hm |-> g, threw |-> TRUE]
    ELSE LET w == read_u32(reader.data_, reader.pos_)
             g1 == [g EXCEPT !.width_ = w]
         IN  IF ~remaining(reader, 8) THEN [hm |-> g1, threw |-> TRUE]
             ELSE LET h == read_u32(reader.data_, reader.pos_ + 4)
                      n == cells_of(w, h)
                      g2 == [width_ |-> w, height_ |-> h, data_ |-> resize(g.data_, n)]
                  IN  IF ~remaining(reader, 8 + 4 * n) THEN [hm |-> g2, threw |-> TRUE]
                      ELSE [hm |-> [g2 EXCEPT !.data_ = [i \in 0 .. n - 1 |->
                                       read_f32(reader.data_, reader.pos_ + 8 + 4 * i)]],
                            threw |-> FALSE]

\* std::sort of the data, by insertion
RECURSIVE Insert(_, _)
Insert(sq, v) ==
    IF sq = << >> THEN <<v>>
    ELSE IF v <= Head(sq) THEN <<v>> \o sq ELSE <<Head(sq)>> \o Insert(Tail(sq), v)
RECURSIVE SortFrom(_, _, _)
SortFrom(d, i, acc) == IF i < 0 THEN acc ELSE SortFrom(d, i - 1, Insert(acc, d[i]))
\* the cells in storage order: the sort left out
Unsorted(g) == [i \in 1 .. Size(g) |-> g.data_[i - 1]]
Sorted(g) == SortFrom(g.data_, Size(g) - 1, << >>)

\* ------------------------------------------------------------------------
\* TerrainGenerator (layers/planetary/TerrainGenerator.h)
\* ------------------------------------------------------------------------
TerrainConfig(width, height, sea_level, num_plates, erosion_iterations) ==
    [width |-> width, height |-> height, sea_level |-> sea_level,
     num_plates |-> num_plates, fbm_octaves |-> 7, mountain_scale |-> 300,
     erosion_iterations |-> erosion_iterations]

Cells(cfg) == 0 .. cfg.width * cfg.height - 1
CellX(cfg, i) == i % cfg.width
CellY(cfg, i) == i \div cfg.width

RECURSIVE DrawPlates(_, _, _, _)
\* the first loop of generate_plates: five draws per plate
DrawPlates(cfg, i, rng, plates) ==
    IF i >= cfg.num_plates THEN [plates |-> plates, rng |-> rng]
    ELSE LET cx == next_float_range(rng, 0, cfg.width * S, "center_x")
             cy == next_float_range(cx.rng, 0, cfg.height * S, "center_y")
             dx == next_float_range(cy.rng, 0 - S, S, "drift_x")
             dy == next_float_range(dx.rng, 0 - S, S, "drift_y")
             oc == next_float(dy.rng, "is_oceanic")
         IN  DrawPlates(cfg, i + 1, oc.rng,
                Append(plates, [center_x |-> cx.v, center_y |-> cy.v, drift_x |-> dx.v,
                                drift_y |-> dy.v, is_oceanic |-> oc.v < 450]))

\* squared toroidal-X distance of cell (x, y) to a plate centre
PlateDist(cfg, plate, x, y) ==
    LET half == FMul(cfg.width * S, 500)
        dx0  == x * S - plate.center_x
        dy   == y * S - plate.center_y
        dx1  == IF dx0 > half THEN dx0 - cfg.width * S ELSE dx0
        dx   == IF dx1 < 0 - half THEN dx1 + cfg.width * S ELSE dx1
    IN  FMul(dx, dx) + FMul(dy, dy)

RECURSIVE Nearest(_, _, _, _, _, _, _)
Nearest(cfg, plates, x, y, i, min_dist, nearest) ==
    IF i >= cfg.num_plates THEN nearest
    ELSE LET dist == PlateDist(cfg, plates[i + 1], x, y)
         IN  IF dist < min_dist THEN Nearest(cfg, plates, x, y, i + 1, dist, i)
             ELSE Nearest(cfg, plates, x, y, i + 1, min_dist, nearest)

\* generate_plates: plates_ and the plate map (plate index per cell)
generate_plates(cfg, rng) ==
    LET d == DrawPlates(cfg, 0, rng, << >>)
    IN  [plates |-> d.plates, rng |-> d.rng,
         plate_map |-> [i \in Cells(cfg) |->
              Nearest(cfg, d.plates, CellX(cfg, i), CellY(cfg, i), 0, Inf, 0)]]

plates_to_elevation(plate_map, plates, cfg) ==
    [width_ |-> cfg.width, height_ |-> cfg.height,
     data_ |-> [i \in Cells(cfg) |-> IF plates[plate_map[i] + 1].is_oceanic THEN 250 ELSE 550]]

\* static_cast<f64>(x) / config.width
Frac(x, n) == FDiv(x * S, n * S)

apply_continental_noise(elevation, cfg, rng, hi_first) ==
    LET c == next_u64(rng, hi_first, "continents")
        d == next_u64(c.rng, hi_first, "detail")
        continents == PerlinNoise(c.v)
        detail == PerlinNoise(d.v)
    IN  [rng |-> d.rng,
         elevation |-> [elevation EXCEPT !.data_ = [i \in DOMAIN elevation.data_ |->
            LET nx == Frac(CellX(cfg, i), cfg.width)
                ny == Frac(CellY(cfg, i), cfg.height)
                continent_noise == fbm(continents, FMul(nx, 4 * S), FMul(ny, 4 * S),
                                       cfg.fbm_octaves, S, 550, 2 * S)
                detail_noise == fbm(detail, FMul(nx, 12 * S), FMul(ny, 12 * S),
                                    4, S, 500, 2 * S)
            IN  elevation.data_[i] + FMul(continent_noise, 350) + FMul(detail_noise, 80)]]]

\* the cells visited by the loops  for (y = 1; y < height - 1; ..) for (x = 1; x < width - 1; ..)
Interior(cfg) ==
    {i \in Cells(cfg) : /\ CellX(cfg, i) >= 1 /\ CellX(cfg, i) < U32Sub(cfg.width, 1)
                        /\ CellY(cfg, i) >= 1 /\ CellY(cfg, i) < U32Sub(cfg.height, 1)}

\* the four plate_map indices read around cell i
Neighbours4(cfg, i) == {i - 1, i + 1, i - cfg.width, i + cfg.width}

\* a check of the left and right neighbours alone
is_boundary_in_row(plate_map, cfg, i) ==
    plate_map[i - 1] # plate_map[i] \/ plate_map[i + 1] # plate_map[i]
is_boundary(plate_map, cfg, i) == \E n \in Neighbours4(cfg, i) : plate_map[n] # plate_map[i]

\* the ridge pass of apply_mountain_ridges, before the blur
add_ridges(elevation, plate_map, cfg, ridge_noise) ==
    [elevation EXCEPT !.data_ = [i \in DOMAIN elevation.data_ |->
        IF i \in Interior(cfg) /\ is_boundary(plate_map, cfg, i)
        THEN LET nx == Frac(CellX(cfg, i), cfg.width)
                 ny == Frac(CellY(cfg, i), cfg.height)
                 ridge == ridged(ridge_noise, FMul(nx, 8 * S), FMul(ny, 8 * S), 5, S, 600, 2 * S)
             IN  elevation.data_[i] + FMul(ridge, cfg.mountain_scale)
        ELSE elevation.data_[i]]]

apply_mountain_ridges(elevation, plate_map, cfg, rng, hi_first) ==
    LET r == next_u64(rng, hi_first, "ridge_noise")
    IN  [rng |-> r.rng,
         elevation |-> blur(add_ridges(elevation, plate_map, cfg, PerlinNoise(r.v)), 2)]

\* stage 5 of generate: normalise, then the percentile remap
sea_level_remap(elevation, cfg) ==
    LET n == normalise(elevation)
        sorted == Sorted(n)
        sea_idx == (cfg.sea_level * Len(sorted)) \div S
        threshold == sorted[IMin(sea_idx, Len(sorted) - 1) + 1]
    IN  [n EXCEPT !.data_ = [i \in DOMAIN n.data_ |->
            LET e == n.data_[i]
            IN  IF FLe(e, threshold) THEN FMul(FDiv(e, threshold), cfg.sea_level)
                ELSE FAdd(cfg.sea_level,
                          FMul(FDiv(e - threshold, S - threshold), S - cfg.sea_level))]]

\* --- stage 4: hydraulic erosion, one droplet step at a time ---
MaxLifetime == 50

NoDrop == [px |-> 0, py |-> 0, sediment |-> 0, speed |-> 0, water |-> 0,
           dir_x |-> 0, dir_y |-> 0, step |-> 0, alive |-> FALSE]

\* the position draws the other way round
new_drop_yx(cfg, rng) ==
    LET py == next_float_range(rng, S, U32Sub(cfg.height, 2) * S, "drop_y")
        px == next_float_range(py.rng, S, U32Sub(cfg.width, 2) * S, "drop_x")
    IN  [rng |-> px.rng,
         drop |-> [px |-> px.v, py |-> py.v, sediment |-> 0, speed |-> 0, water |-> S,
                   dir_x |-> 0, dir_y |-> 0, step |-> 0, alive |-> TRUE]]

\* a new droplet: one position draw pair
new_drop(cfg, rng) ==
    LET px == next_float_range(rng, S, U32Sub(cfg.width, 2) * S, "drop_x")
        py == next_float_range(px.rng, S, U32Sub(cfg.height, 2) * S, "drop_y")
    IN  [rng |-> py.rng,
         drop |-> [px |-> px.v, py |-> py.v, sediment |-> 0, speed |-> 0, water |-> S,
                   dir_x |-> 0, dir_y |-> 0, step |-> 0, alive |-> TRUE]]

\* the guard one cell too wide
outside_interior_late(ix, iy, w, h) ==
    ix < 1 \/ ix > U32Sub(w, 1) \/ iy < 1 \/ iy > U32Sub(h, 1)

\* if (ix < 1 || ix >= w - 1 || iy < 1 || iy >= h - 1) break;
outside_interior(ix, iy, w, h) ==
    ix < 1 \/ ix >= U32Sub(w, 1) \/ iy < 1 \/ iy >= U32Sub(h, 1)

\* the flat indices of the gradient reads of a step that passes the first guard
gradient_reads(elevation, d) ==
    LET ix == d.px \div S
        iy == d.py \div S
    IN  IF d.step >= MaxLifetime
           \/ outside_interior(ix, iy, elevation.width_, elevation.height_)
        THEN {}
        ELSE {index(elevation, ix - 1, iy), index(elevation, ix + 1, iy),
              index(elevation, ix, iy - 1), index(elevation, ix, iy + 1)}

\* the flat indices sample(fx, fy) reads
sample_reads(g, fx0, fy0) ==
    LET fx == FClamp(fx0, 0, (g.width_ - 1) * S)
        fy == FClamp(fy0, 0, (g.height_ - 1) * S)
        x0 == fx \div S
        y0 == fy \div S
        x1 == IMin(x0 + 1, g.width_ - 1)
        y1 == IMin(y0 + 1, g.height_ - 1)
    IN  {index(g, x0, y0), index(g, x1, y0), index(g, x0, y1), index(g, x1, y1)}

\* a deposit of the whole height difference, whatever the droplet carries
cell_delta_whole_step(d, h_diff) ==
    IF h_diff > 0
    THEN h_diff
    ELSE LET capacity == FMul(FMul(FMul(FMax(0 - h_diff, 10), d.speed), d.water), 8 * S)
         IN  IF d.sediment > capacity
             THEN FMul(d.sediment - capacity, 300)
             ELSE 0 - FMin(FMul(capacity - d.sediment, 300), 0 - h_diff)
\* the deposit / erode branch: the change of the cell under the droplet
\* (the sediment changes by the opposite amount)
cell_delta(d, h_diff) ==
    IF h_diff > 0
    THEN FMin(d.sediment, h_diff)
    ELSE LET capacity == FMul(FMul(FMul(FMax(0 - h_diff, 10), d.speed), d.water), 8 * S)
         IN  IF d.sediment > capacity
             THEN FMul(d.sediment - capacity, 300)
             ELSE 0 - FMin(FMul(capacity - d.sediment, 300), 0 - h_diff)

\* a break that also takes the droplets moving on a gentle slope
no_direction_below_half(len) == len < S \div 2
\* if (len < 1e-6f) break;
no_direction(len) == len <= 0

\* one iteration of the step loop of apply_erosion (loop test included):
\* the new grid, the droplet (alive = FALSE once the loop is left) and the
\* flat indices the iteration touched besides the gradient reads
erosion_step(elevation, d) ==
    LET w  == elevation.width_
        h  == elevation.height_
        ix == d.px \div S
        iy == d.py \div S
        dead == [elevation |-> elevation, drop |-> NoDrop, touched |-> {}]
    IN  IF d.step >= MaxLifetime \/ outside_interior(ix, iy, w, h) THEN dead
        ELSE
        LET gx == FMul(get(elevation, ix + 1, iy) - get(elevation, ix - 1, iy), 500)
            gy == FMul(get(elevation, ix, iy + 1) - get(elevation, ix, iy - 1), 500)
            dx0 == FMul(d.dir_x, 300) - FMul(gx, S - 300)
            dy0 == FMul(d.dir_y, 300) - FMul(gy, S - 300)
            len == ISqrt(dx0 * dx0 + dy0 * dy0)
        IN  IF no_direction(len) THEN dead
            ELSE
            LET dir_x == (dx0 * S) \div len
                dir_y == (dy0 * S) \div len
                new_px == d.px + dir_x
                new_py == d.py + dir_y
            IN  IF outside_interior(new_px \div S, new_py \div S, w, h) THEN dead
                ELSE
                LET h_diff == sample(elevation, new_px, new_py) - sample(elevation, d.px, d.py)
                    delta  == cell_delta(d, h_diff)
                IN  [elevation |-> set(elevation, ix, iy, get(elevation, ix, iy) + delta),
                     drop |-> [px |-> new_px, py |-> new_py,
                               sediment |-> d.sediment - delta,
                               speed |-> FSqrt(FMax(FMul(d.speed, d.speed) + FMul(h_diff, 4 * S), 0)),
                               water |-> FMul(d.water, S - 10),
                               dir_x |-> dir_x, dir_y |-> dir_y,
                               step |-> d.step + 1, alive |-> TRUE],
                     touched |-> sample_reads(elevation, d.px, d.py)
                                 \cup sample_reads(elevation, new_px, new_py)
                                 \cup {index(elevation, ix, iy)}]

\* ------------------------------------------------------------------------
\* ClimateGenerator (layers/planetary/ClimateGenerator.h)
\* ------------------------------------------------------------------------
ClimateConfig(sea_level) ==
    [sea_level |-> sea_level, axial_tilt |-> 23500, base_temp |-> 15 * S,
     temp_range |-> 70 * S, altitude_lapse |-> 40 * S, ocean_moisture |-> 900]

\* the latitude measured from the top row: the "- 1.0f" left out
latitude_from_top(y, h) == FAbs(FDiv(2 * S * y, h * S))

\* std::abs(2.0f * static_cast<f32>(y) / h - 1.0f)
latitude(y, h) == FAbs(FDiv(2 * S * y, h * S) - S)

\* (elev - sea_level) / (1.0f - sea_level)
land_height(elev, sea_level) == FDiv(FSub(elev, sea_level), S - sea_level)

generate_temperature(elevation, config, rng, hi_first) ==
    LET n == next_u64(rng, hi_first, "temperature_noise")
        pn == PerlinNoise(n.v)
        w == elevation.width_
        h == elevation.height_
    IN  [rng |-> n.rng,
         map |-> [elevation EXCEPT !.data_ = [i \in DOMAIN elevation.data_ |->
            LET x == i % w
                y == i \div w
                lat == latitude(y, h)
                lat_temp == config.base_temp - FMul(FMul(config.temp_range, 500), FMul(lat, lat))
                elev == elevation.data_[i]
                t1 == IF FGt(elev, config.sea_level)
                      THEN lat_temp - FMul(land_height(elev, config.sea_level), config.altitude_lapse)
                      ELSE lat_temp
                t2 == IF FLt(elev, config.sea_level)
                      THEN FMul(t1, 700) + FMul(config.base_temp, 300)
                      ELSE t1
                variation == FMul(fbm(pn, FMul(Frac(x, w), 6 * S), FMul(Frac(y, h), 6 * S),
                                      3, S, 500, 2 * S), 5 * S)
            IN  t2 + variation]]]

\* --- compute_ocean_distance: multi-source breadth-first flood fill ---
RECURSIVE SeedQueue(_, _, _, _)
\* the seeding loops, row-major
SeedQueue(elevation, sea_level, i, queue) ==
    IF i >= Size(elevation) THEN queue
    ELSE SeedQueue(elevation, sea_level, i + 1,
                   IF FLt(elevation.data_[i], sea_level)
                   THEN Append(queue, <<i % elevation.width_, i \div elevation.width_>>)
                   ELSE queue)

bfs_seed(elevation, config) ==
    [dist |-> [elevation EXCEPT !.data_ = [i \in DOMAIN elevation.data_ |->
                  IF FLt(elevation.data_[i], config.sea_level) THEN 0 ELSE 0 - S]],
     queue |-> SeedQueue(elevation, config.sea_level, 0, << >>)]

\* const i32 dx[] = {-1, 1, 0, 0}; const i32 dy[] = {0, 0, -1, 1};
DirX == <<0 - 1, 1, 0, 0>>
DirY == <<0, 0, 0 - 1, 1>>

\* the last row taken for the edge
off_grid_short(nx, ny, w, h) == nx < 0 \/ nx >= w \/ ny < 0 \/ ny >= h - 1

\* if (nx < 0 || nx >= w || ny < 0 || ny >= h) continue;
off_grid(nx, ny, w, h) == nx < 0 \/ nx >= w \/ ny < 0 \/ ny >= h

RECURSIVE bfs_visit(_, _, _, _, _)
\* the loop over the four directions d .. 3 around the popped cell (cx, cy)
bfs_visit(b, cx, cy, current_dist, d) ==
    IF d > 4 THEN b
    ELSE LET nx == cx + DirX[d]
             ny == cy + DirY[d]
         IN  IF off_grid(nx, ny, b.dist.width_, b.dist.height_)
             THEN bfs_visit(b, cx, cy, current_dist, d + 1)
             ELSE IF get(b.dist, nx, ny) < 0
                  THEN bfs_visit([dist |-> set(b.dist, nx, ny, current_dist + S),
                                  queue |-> Append(b.queue, <<nx, ny>>)],
                                 cx, cy, current_dist, d + 1)
                  ELSE bfs_visit(b, cx, cy, current_dist, d + 1)

\* a stack in place of the queue: the back is popped
bfs_step_lifo(b) ==
    LET c == b.queue[Len(b.queue)]
    IN  bfs_visit([dist |-> b.dist, queue |-> SubSeq(b.queue, 1, Len(b.queue) - 1)],
                  c[1], c[2], get(b.dist, c[1], c[2]), 1)

\* one iteration of while (!queue.empty()): pop the front, visit its neighbours
bfs_step(b) ==
    LET c == Head(b.queue)
    IN  bfs_visit([dist |-> b.dist, queue |-> Tail(b.queue)], c[1], c[2],
                  get(b.dist, c[1], c[2]), 1)

RECURSIVE bfs_run(_)
bfs_run(b) == IF b.queue = << >> THEN b.dist ELSE bfs_run(bfs_step(b))

compute_ocean_distance(elevation, config) == bfs_run(bfs_seed(elevation, config))

\* std::exp(x) for x <= 0: exp(-a) = 2^-k * exp(-r), a = k ln 2 + r, by its series
FExp(x) ==
    LET a == 0 - x
        k == a \div 693
        r == a % 693
        r2 == FMul(r, r)
        t == S - r + r2 \div 2 - FMul(r2, r) \div 6 + FMul(r2, r2) \div 24
    IN  IF k > 20 THEN 0 ELSE t \div (2 ^ k)

\* std::pow(x, 0.4f) on [0, 1]: the fifth root of x^2, x to two digits, the
\* result in steps of 1/50
FPow04(x) ==
    LET xc == x \div 10
        y == CHOOSE r \in 0 .. 50 :
                 /\ r * r * r * r * r <= xc * xc * 31250
                 /\ (r = 50 \/ (r + 1) * (r + 1) * (r + 1) * (r + 1) * (r + 1) > xc * xc * 31250)
    IN  y * 20

\* the factor growing with the distance: the "1.0f -" left out
ocean_factor_inland(dist, w, h) ==
    LET max_dist == FMul(FSqrt((w * w + h * h) * S), 500)
    IN  FPow04(FClamp(FDiv(dist, max_dist), 0, S))

\* the ocean-proximity factor of a land cell at BFS distance dist
ocean_factor(dist, w, h) ==
    LET max_dist == FMul(FSqrt((w * w + h * h) * S), 500)
    IN  FPow04(S - FClamp(FDiv(dist, max_dist), 0, S))

\* the moisture of land cell i before its noise term: the combined factors
\* times the altitude factor
moisture_before_noise(elevation, ocean_dist, config, i) ==
    LET w == elevation.width_
        h == elevation.height_
        lat == latitude(i \div w, h)
        tropical_moisture == FMul(FExp(0 - FMul(FMul(lat, lat), 8 * S)), 300)
        temperate_moisture ==
            FMul(FExp(0 - FMul(FMul(lat - 500, lat - 500), 20 * S)), 150)
        altitude_factor ==
            FSub(S, FMul(land_height(elevation.data_[i], config.sea_level), 500))
        m0 == FMul(ocean_factor(ocean_dist.data_[i], w, h), 500)
              + tropical_moisture + temperate_moisture
    IN  FMul(m0, altitude_factor)

generate_moisture(elevation, temperature, config, rng, hi_first) ==
    LET ocean_dist == compute_ocean_distance(elevation, config)
        n == next_u64(rng, hi_first, "moisture_noise")
        pn == PerlinNoise(n.v)
        w == elevation.width_
        h == elevation.height_
    IN  [rng |-> n.rng,
         map |-> [elevation EXCEPT !.data_ = [i \in DOMAIN elevation.data_ |->
            LET x == i % w
                y == i \div w
                variation == FMul(fbm(pn, FMul(Frac(x, w), 5 * S), FMul(Frac(y, h), 5 * S),
                                      3, S, 500, 2 * S), 150)
            IN  IF FLt(elevation.data_[i], config.sea_level) THEN config.ocean_moisture
                ELSE FClamp(FAdd(moisture_before_noise(elevation, ocean_dist, config, i),
                                 variation), 0, S)]]]

\* ------------------------------------------------------------------------
\* classify_biome (layers/planetary/Biome.h); temperatures in thousandths of
\* a degree
\* ------------------------------------------------------------------------
\* the Whittaker lattice: the rules below the Ice rule
whittaker(temperature, moisture) ==
    IF FLt(temperature, 0) THEN "Tundra"
    ELSE IF FLt(temperature, 10 * S)
    THEN IF FGt(moisture, 500) THEN "BorealForest" ELSE "Tundra"
    ELSE IF FLt(temperature, 20 * S)
    THEN IF FGt(moisture, 700) THEN "TemperateRainforest"
         ELSE IF FGt(moisture, 400) THEN "TemperateForest"
         ELSE IF FGt(moisture, 200) THEN "Shrubland"
         ELSE "TemperateGrassland"
    ELSE IF FLt(temperature, 30 * S)
    THEN IF FGt(moisture, 650) THEN "TropicalRainforest"
         ELSE IF FGt(moisture, 350) THEN "TropicalForest"
         ELSE IF FGt(moisture, 150) THEN "Savanna"
         ELSE "Desert"
    ELSE IF FGt(moisture, 600) THEN "TropicalRainforest"
         ELSE IF FGt(moisture, 300) THEN "Savanna"
         ELSE "Desert"

\* the two water rules the other way round
classify_biome_ocean_first(elevation, temperature, moisture, sea_level) ==
    IF FLt(elevation, sea_level) THEN "Ocean"
    ELSE IF FLt(elevation, sea_level - 50) THEN "DeepOcean"
    ELSE LET lh == land_height(elevation, sea_level)
         IN  IF FLt(lh, 20) THEN "Beach"
             ELSE IF FGt(lh, 700) THEN "Mountain"
             ELSE IF FLt(temperature, 0 - 10 * S) THEN "Ice"
             ELSE whittaker(temperature, moisture)

\* an ice band over the water rules
classify_biome_frozen_sea(elevation, temperature, moisture, sea_level) ==
    IF FLt(elevation, sea_level) /\ FLt(temperature, 0 - 10 * S) THEN "Ice"
    ELSE IF FLt(elevation, sea_level - 50) THEN "DeepOcean"
    ELSE IF FLt(elevation, sea_level) THEN "Ocean"
    ELSE LET lh == land_height(elevation, sea_level)
         IN  IF FLt(lh, 20) THEN "Beach"
             ELSE IF FGt(lh, 700) THEN "Mountain"
             ELSE IF FLt(temperature, 0 - 10 * S) THEN "Ice"
             ELSE whittaker(temperature, moisture)

classify_biome(elevation, temperature, moisture, sea_level) ==
    IF FLt(elevation, sea_level - 50) THEN "DeepOcean"
    ELSE IF FLt(elevation, sea_level) THEN "Ocean"
    ELSE LET lh == land_height(elevation, sea_level)
         IN  IF FLt(lh, 20) THEN "Beach"
             ELSE IF FGt(lh, 700) THEN "Mountain"
             ELSE IF FLt(temperature, 0 - 10 * S) THEN "Ice"
             ELSE whittaker(temperature, moisture)

\* ------------------------------------------------------------------------
\* Terraforming (renderer/PlanetRenderer.h)
\* ------------------------------------------------------------------------
\* std::array<int, 4>{4, 8, 16, 32}
brush_radii_ == <<4, 8, 16, 32>>

\* if (px < 0) px += w; if (px >= w) px -= w;
wrap(px, w) ==
    LET a == IF px < 0 THEN px + w ELSE px
    IN  IF a >= w THEN a - w ELSE a

\* std::exp(-d2 * inv_r2 * 2.0f)
brush_weight(dx, dy, radius) ==
    FExp(0 - FMul(FMul((dx * dx + dy * dy) * S, FDiv(S, radius * radius * S)), 2 * S))

RECURSIVE brush_columns(_, _, _, _, _, _, _)
\* the dx loop of terraform_brush on row py, from dx on (the test of width_
\* has TLC evaluate the grid at every turn rather than at the end)
brush_columns(elev, cx, py, dy, dx, radius, strength) ==
    IF dx > radius \/ elev.width_ < 0 THEN elev
    ELSE LET px == wrap(cx + dx, elev.width_)
             e  == get(elev, px, py)
             v  == FClamp(FAdd(e, FMul(strength, brush_weight(dx, dy, radius))), 0, S)
         IN  brush_columns(set(elev, px, py, v), cx, py, dy, dx + 1, radius, strength)

RECURSIVE brush_rows(_, _, _, _, _, _)
\* the dy loop of terraform_brush, from dy on
brush_rows(elev, cx, cy, dy, radius, strength) ==
    IF dy > radius \/ elev.width_ < 0 THEN elev
    ELSE IF cy + dy < 0 \/ cy + dy >= elev.height_
         THEN brush_rows(elev, cx, cy, dy + 1, radius, strength)
         ELSE brush_rows(brush_columns(elev, cx, cy + dy, dy, 0 - radius, radius, strength),
                         cx, cy, dy + 1, radius, strength)

terraform_brush(elev, cx, cy, radius, strength) ==
    brush_rows(elev, cx, cy, 0 - radius, radius, strength)

\* a reclassification that stops short of the brush's edge
reclassify_reach_short(radius) == radius - 2

\* for (int dy = -radius - 2; dy <= radius + 2; dy++), and the same for dx
reclassify_reach(radius) == radius + 2

\* the cells the reclassification loops write
reclassified(cx, cy, radius, w, h) ==
    {index([width_ |-> w], wrap(cx + dx, w), cy + dy) :
        dx \in 0 - reclassify_reach(radius) .. reclassify_reach(radius),
        dy \in {d \in 0 - reclassify_reach(radius) .. reclassify_reach(radius) :
                    cy + d >= 0 /\ cy + d < h}}

\* the reclassification of the cells around the pick after a press edit
reclassify(bm, elev, temp, moist, sea_level, cx, cy, radius) ==
    LET cells == reclassified(cx, cy, radius, elev.width_, elev.height_)
    IN  [i \in DOMAIN bm |->
            IF i \in cells
            THEN classify_biome(elev.data_[i], temp.data_[i], moist.data_[i], sea_level)
            ELSE bm[i]]

\* PlanetData::classify_biomes: the biome of every cell from its three fields
classify_biomes(elev, temp, moist, sea_level) ==
    [i \in DOMAIN elev.data_ |->
        classify_biome(elev.data_[i], temp.data_[i], moist.data_[i], sea_level)]

\* the columns a loop over dx in -reach .. reach touches around cx
columns_touched(cx, reach, w) == {wrap(cx + dx, w) : dx \in 0 - reach .. reach}

\* ------------------------------------------------------------------------
\* The generation pipeline, run twice as the determinism test runs it
\* (tests: "Terrain generator is deterministic", "PlanetData ... round-trip")
\* ------------------------------------------------------------------------
VARIABLES
    config,        \* the TerrainConfig of both runs
    seed,          \* the seed of both RNGs
    hi_first,      \* the build's evaluation order of the two operands of next_u64
    run,           \* 1 or 2: which generator is running
    pc,            \* the stage the running generator is about to execute
    rngs,          \* <<rng1, rng2>>
    plates_,       \* TerrainGenerator::plates_
    plate_map,     \* the local plate_map of generate
    elevation,     \* the grid of the running pipeline
    iter,          \* erosion iterations started
    drop,          \* the droplet of the running erosion iteration
    entering,      \* the grid as it entered stage 5 (as it entered the ridge pass)
    temperature,
    moisture,
    maps,          \* the grids of run 1, kept for the comparison
    ocean,         \* compute_ocean_distance: its dist grid and its queue
    cell,          \* the arguments of a classify_biome call
    biome,         \* its result
    biome_map,     \* PlanetData::biome_map
    renderer,      \* PlanetRenderer: terraform_mode_, brush_size_idx_, prev_t, prev_b
    frames,        \* frames of the render loop run so far
    oob            \* an access outside its allocation has happened

\* the Heightmap under test (tests: "Heightmap normalise", "... round-trip")
VARIABLES
    hm,            \* the Heightmap the calls are made on
    other,         \* the Heightmap deserialise is called on
    writer,        \* BinaryWriter::buf_
    calls,         \* the calls made so far: counts and the last two
    prev           \* hm as it was before the last call

\* the simulation kernel (EventBus, TickScheduler, the registered layers)
VARIABLES
    bus,           \* the EventBus: pending_, log_, handlers_, next_event_id_
    scheduler,     \* the TickScheduler: levels_, layers_, current_time_, active_level_, paused_
    tick_count_,   \* Layer::tick_count_ of every layer object
    received,      \* the handler calls made so far, each with the event it was given
    emitted,       \* the events passed to emit so far
    trail,         \* the calls made so far: counts, the last one, the state before it
    registry       \* the Registry: id_to_entt_, entt_to_id_, next_id_, and its history

kernel_vars == <<bus, scheduler, tick_count_, received, emitted, trail, registry>>

\* the variables outside the planet machines
beside_planet == <<hm, other, writer, calls, prev, kernel_vars>>

NumCells == config.width * config.height

\* the variables of the other machines, which the pipeline leaves alone
beside_pipeline == <<ocean, cell, biome, biome_map, renderer, frames, beside_planet>>

Seeds == 0 .. MaxSeed
Dims == 1 .. MaxDim
SeaLevels == {400}

NoMap == Heightmap(0, 0, 0)
NoOcean == [dist |-> NoMap, queue |-> << >>]
NoCell == [elevation |-> 0, temperature |-> 0, moisture |-> 0, sea_level |-> 0]

\* the rest state of each machine, for the specifications of the others
PipelineIdle ==
    /\ seed = 0
    /\ hi_first = TRUE
    /\ run = 1
    /\ rngs = <<RNG(0), RNG(0)>>
    /\ plates_ = << >>
    /\ plate_map = << >>
    /\ iter = 0
    /\ drop = NoDrop
    /\ entering = NoMap
    /\ maps = << >>
    /\ oob = FALSE
OceanIdle == ocean = NoOcean
BiomeIdle == cell = NoCell /\ biome = "none"
\* bool terraform_mode_ = false; int brush_size_idx_ = 1;
PlanetRenderer ==
    [terraform_mode_ |-> FALSE, brush_size_idx_ |-> 1, prev_t |-> FALSE, prev_b |-> FALSE]
RendererIdle == biome_map = << >> /\ renderer = PlanetRenderer /\ frames = 0
NoCalls == [built |-> FALSE, sets |-> 0, bulk |-> 0, last |-> "none", last2 |-> "none"]
HeightmapIdle ==
    hm = NoMap /\ other = NoMap /\ writer = << >> /\ calls = NoCalls /\ prev = NoMap
\* the layer objects that exist: a CosmologicalLayer, which emits a
\* LayerTickedEvent in tick, a TestLayer with the id Planetary, which does not, a
\* second CosmologicalLayer and a PlanetaryLayer (no planet generated)
LayerPool ==
    << [id |-> 0, emits |-> TRUE, kind |-> "Cosmological"],
       [id |-> 1, emits |-> FALSE, kind |-> "Test"],
       [id |-> 0, emits |-> TRUE, kind |-> "Cosmological"],
       [id |-> 1, emits |-> TRUE, kind |-> "Planetary"] >>
\* the layers the scheduler tests register
TestLayers == {1, 2}
\* Registry registry; with the entities created and destroyed so far, the last
\* call and the registry before it
Registry ==
    [id_to_entt_ |-> << >>, entt_to_id_ |-> << >>, next_id_ |-> 1,
     created |-> << >>, destroyed |-> {}, last |-> "none", arg |-> 0,
     before |-> [id_to_entt_ |-> << >>, entt_to_id_ |-> << >>, next_id_ |-> 1]]
\* EventBus bus;
EventBus == [pending_ |-> << >>, log_ |-> << >>, handlers_ |-> << >>, next_event_id_ |-> 0]
\* TickScheduler scheduler(bus);
TickScheduler ==
    [levels_ |-> << >>, layers_ |-> << >>, current_time_ |-> 0, active_level_ |-> 0,
     paused_ |-> TRUE]
NoTrail ==
    [emits |-> 0, dispatches |-> 0, steps |-> 0, last |-> "none", log_before |-> 0,
     handlers_at |-> << >>, ran |-> 0, ticks_before |-> << >>,
     level_before |-> [duration |-> 0, active_layers |-> 0],
     before |-> [scheduler |-> TickScheduler, bus |-> EventBus, dispatches |-> 0],
     saved |-> [time |-> 0, level |-> 0, ticks |-> << >>, steps |-> 0]]
KernelIdle ==
    /\ bus = EventBus
    /\ scheduler = TickScheduler
    /\ tick_count_ = [l \in DOMAIN LayerPool |-> 0]
    /\ received = << >>
    /\ emitted = << >>
    /\ trail = NoTrail
    /\ registry = Registry
CoreIdle == HeightmapIdle /\ KernelIdle

\* both generators bound to rng1
rng_shared(r) == 1

\* TerrainGenerator gen1(rng1); ... TerrainGenerator gen2(rng2);
rng_ref(r) == r

Rng == rngs[rng_ref(run)]
SetRng(rng) == rngs' = [rngs EXCEPT ![rng_ref(run)] = rng]

TerrainInit ==
    /\ config \in {TerrainConfig(w, h, sl, np, ei) :
                     w \in Dims, h \in Dims, sl \in SeaLevels,
                     np \in 0 .. MaxPlates, ei \in 0 .. MaxErosion}
    /\ seed \in Seeds
    /\ hi_first \in BOOLEAN
    /\ run = 1
    /\ pc = "generate_plates"
    /\ rngs = <<RNG(seed), RNG(seed)>>
    /\ plates_ = << >>
    /\ plate_map = << >>
    /\ elevation = NoMap
    /\ iter = 0
    /\ drop = NoDrop
    /\ entering = NoMap
    /\ temperature = NoMap
    /\ moisture = NoMap
    /\ maps = << >>
    /\ oob = FALSE
    /\ OceanIdle
    /\ BiomeIdle
    /\ RendererIdle
    /\ CoreIdle

\* an access outside its allocation: the behaviour is undefined from here on
Undefined ==
    /\ oob' = TRUE
    /\ pc' = "undefined"
    /\ UNCHANGED <<config, seed, hi_first, run, rngs, plates_, plate_map, elevation,
                   iter, drop, entering, temperature, moisture, maps, beside_pipeline>>

GeneratePlates ==
    /\ pc = "generate_plates"
    /\ LET g == generate_plates(config, Rng)
       IN  /\ plates_' = g.plates
           /\ plate_map' = g.plate_map
           /\ SetRng(g.rng)
    /\ pc' = "plates_to_elevation"
    /\ UNCHANGED <<config, seed, hi_first, run, elevation, iter, drop, entering,
                   temperature, moisture, maps, beside_pipeline, oob>>

PlatesToElevation ==
    /\ pc = "plates_to_elevation"
    /\ IF \A i \in Cells(config) : plate_map[i] + 1 \in DOMAIN plates_
       THEN /\ elevation' = plates_to_elevation(plate_map, plates_, config)
            /\ pc' = "apply_continental_noise"
            /\ UNCHANGED <<config, seed, hi_first, run, rngs, plates_, plate_map, iter, drop,
                           entering, temperature, moisture, maps, beside_pipeline, oob>>
       ELSE Undefined

ApplyContinentalNoise ==
    /\ pc = "apply_continental_noise"
    /\ LET a == apply_continental_noise(elevation, config, Rng, hi_first)
       IN  /\ elevation' = a.elevation
           /\ SetRng(a.rng)
    /\ pc' = "apply_mountain_ridges"
    /\ UNCHANGED <<config, seed, hi_first, run, plates_, plate_map, iter, drop, entering,
                   temperature, moisture, maps, beside_pipeline, oob>>

ApplyMountainRidges ==
    /\ pc = "apply_mountain_ridges"
    /\ IF \A i \in Interior(config) : Neighbours4(config, i) \subseteq DOMAIN plate_map
       THEN /\ LET a == apply_mountain_ridges(elevation, plate_map, config, Rng, hi_first)
               IN  /\ elevation' = a.elevation
                   /\ SetRng(a.rng)
            /\ pc' = "apply_erosion"
            /\ UNCHANGED <<config, seed, hi_first, run, plates_, plate_map, iter, drop,
                           entering, temperature, moisture, maps, beside_pipeline, oob>>
       ELSE Undefined

\* the head of an erosion iteration: the position draws
ErosionDrop ==
    /\ pc = "apply_erosion"
    /\ ~drop.alive
    /\ iter < config.erosion_iterations
    /\ LET n == new_drop(config, Rng)
       IN  /\ drop' = n.drop
           /\ SetRng(n.rng)
    /\ iter' = iter + 1
    /\ UNCHANGED <<config, seed, hi_first, run, pc, plates_, plate_map, elevation, entering,
                   temperature, moisture, maps, beside_pipeline, oob>>

\* one pass of the step loop
ErosionStep ==
    /\ pc = "apply_erosion"
    /\ drop.alive
    /\ IF gradient_reads(elevation, drop) \subseteq DOMAIN elevation.data_
       THEN LET e == erosion_step(elevation, drop)
            IN  IF e.touched \subseteq DOMAIN elevation.data_
                THEN /\ elevation' = e.elevation
                     /\ drop' = e.drop
                     /\ UNCHANGED <<config, seed, hi_first, run, pc, rngs, plates_, plate_map,
                                    iter, entering, temperature, moisture, maps, beside_pipeline, oob>>
                ELSE Undefined
       ELSE Undefined

\* stage 5, and the return of generate
SeaLevelRemap ==
    /\ pc = "apply_erosion"
    /\ ~drop.alive
    /\ iter >= config.erosion_iterations
    /\ entering' = elevation
    /\ elevation' = sea_level_remap(elevation, config)
    /\ pc' = "generate_temperature"
    /\ UNCHANGED <<config, seed, hi_first, run, rngs, plates_, plate_map, iter, drop,
                   temperature, moisture, maps, beside_pipeline, oob>>

GenerateTemperature ==
    /\ pc = "generate_temperature"
    /\ LET t == generate_temperature(elevation, ClimateConfig(config.sea_level), Rng, hi_first)
       IN  /\ temperature' = t.map
           /\ SetRng(t.rng)
    /\ pc' = "generate_moisture"
    /\ UNCHANGED <<config, seed, hi_first, run, plates_, plate_map, elevation, iter, drop,
                   entering, moisture, maps, beside_pipeline, oob>>

GenerateMoisture ==
    /\ pc = "generate_moisture"
    /\ LET m == generate_moisture(elevation, temperature, ClimateConfig(config.sea_level),
                                  Rng, hi_first)
       IN  /\ moisture' = m.map
           /\ SetRng(m.rng)
    /\ pc' = "done"
    /\ UNCHANGED <<config, seed, hi_first, run, plates_, plate_map, elevation, iter, drop,
                   entering, temperature, maps, beside_pipeline, oob>>

\* the second generator starts; the grids of the first are kept
NextRun ==
    /\ pc = "done"
    /\ run = 1
    /\ maps' = <<elevation, temperature, moisture>>
    /\ run' = 2
    /\ pc' = "generate_plates"
    /\ plates_' = << >>
    /\ plate_map' = << >>
    /\ elevation' = NoMap
    /\ iter' = 0
    /\ drop' = NoDrop
    /\ entering' = NoMap
    /\ temperature' = NoMap
    /\ moisture' = NoMap
    /\ UNCHANGED <<config, seed, hi_first, rngs, beside_pipeline, oob>>

vars == <<config, seed, hi_first, run, pc, rngs, plates_, plate_map, elevation, iter, drop,
          entering, temperature, moisture, maps, ocean, oob, cell, biome, biome_map, renderer,
          frames, hm, other, writer, calls, prev, bus, scheduler, tick_count_, received,
          emitted, trail, registry>>

Init == TerrainInit

Next ==
    \/ GeneratePlates
    \/ PlatesToElevation
    \/ ApplyContinentalNoise
    \/ ApplyMountainRidges
    \/ ErosionDrop
    \/ ErosionStep
    \/ SeaLevelRemap
    \/ GenerateTemperature
    \/ GenerateMoisture
    \/ NextRun

Spec == Init /\ [][Next]_vars

\* ------------------------------------------------------------------------
\* compute_ocean_distance on its own, one queue pop at a time
\* ------------------------------------------------------------------------
MaxOcean == 2

\* the variables of the pipeline that the flood fill leaves alone
beside_ocean ==
    <<config, seed, hi_first, run, rngs, plates_, plate_map, elevation, iter, drop,
      entering, temperature, moisture, maps, oob, cell, biome, biome_map, renderer, frames,
      beside_planet>>

\* grids of w x h cells with at most MaxOcean cells below sea level
OceanGrids(w, h, sea_level) ==
    {[width_ |-> w, height_ |-> h,
      data_ |-> [i \in 0 .. w * h - 1 |-> IF i \in o THEN sea_level - 200 ELSE land]] :
        o \in {c \in SUBSET (0 .. w * h - 1) : Cardinality(c) <= MaxOcean},
        land \in {sea_level, sea_level + 200}}

OceanInit ==
    /\ config \in {TerrainConfig(w, h, sl, 1, 0) : w \in Dims, h \in Dims, sl \in SeaLevels}
    /\ elevation \in OceanGrids(config.width, config.height, config.sea_level)
    /\ pc = "compute_ocean_distance"
    /\ ocean = NoOcean
    /\ temperature = NoMap
    /\ moisture = NoMap
    /\ PipelineIdle
    /\ BiomeIdle
    /\ RendererIdle
    /\ CoreIdle

\* the allocation of dist and the seeding loops
BfsSeed ==
    /\ pc = "compute_ocean_distance"
    /\ ocean' = bfs_seed(elevation, ClimateConfig(config.sea_level))
    /\ pc' = "bfs"
    /\ UNCHANGED beside_ocean

\* one pass of while (!queue.empty())
BfsStep ==
    /\ pc = "bfs"
    /\ ocean.queue # << >>
    /\ ocean' = bfs_step(ocean)
    /\ UNCHANGED <<pc, beside_ocean>>

\* the queue is empty: return dist
BfsReturn ==
    /\ pc = "bfs"
    /\ ocean.queue = << >>
    /\ pc' = "ocean_distance_returned"
    /\ UNCHANGED <<ocean, beside_ocean>>

OceanNext == BfsSeed \/ BfsStep \/ BfsReturn

OceanSpec == OceanInit /\ [][OceanNext]_vars

IsOcean(i) == FLt(elevation.data_[i], config.sea_level)
Manhattan(i, j) ==
    FAbs((i % config.width) - (j % config.width))
    + FAbs((i \div config.width) - (j \div config.width))

\* C6: when the grid has a cell below sea_level, every cell of the returned grid
\* holds the smallest Manhattan distance from it to a cell below sea_level.
C6_MinManhattan ==
    (pc = "ocean_distance_returned" /\ \E o \in DOMAIN elevation.data_ : IsOcean(o)) =>
        \A i \in DOMAIN elevation.data_ :
            /\ \E o \in DOMAIN elevation.data_ :
                   IsOcean(o) /\ ocean.dist.data_[i] = Manhattan(i, o) * S
            /\ \A o \in DOMAIN elevation.data_ :
                   IsOcean(o) => ocean.dist.data_[i] <= Manhattan(i, o) * S

C6_Witness ==
    /\ pc = "ocean_distance_returned"
    /\ Cardinality({o \in DOMAIN elevation.data_ : IsOcean(o)}) = 2
    /\ \E i \in DOMAIN elevation.data_ : ocean.dist.data_[i] >= 3 * S

\* C7: on return a cell holds -1 only if the grid has no cell below sea_level;
\* with one, every cell holds a distance >= 0.
C7_UnvisitedOnlyWithoutOcean ==
    pc = "ocean_distance_returned" =>
        /\ (\E i \in DOMAIN elevation.data_ : ocean.dist.data_[i] = 0 - S)
               => ~\E o \in DOMAIN elevation.data_ : IsOcean(o)
        /\ (\E o \in DOMAIN elevation.data_ : IsOcean(o))
               => \A i \in DOMAIN elevation.data_ : ocean.dist.data_[i] >= 0

C7_Witness ==
    /\ pc = "ocean_distance_returned"
    /\ NumCells >= 6
    /\ Cardinality({o \in DOMAIN elevation.data_ : IsOcean(o)}) = 1
    /\ \A i \in DOMAIN elevation.data_ : ocean.dist.data_[i] >= 0

\* ------------------------------------------------------------------------
\* classify_biome called on one cell
\* ------------------------------------------------------------------------
beside_biome ==
    <<config, seed, hi_first, run, rngs, plates_, plate_map, elevation, iter, drop,
      entering, temperature, moisture, maps, oob, ocean, biome_map, renderer, frames,
      beside_planet>>

\* argument values on, next to and between the breakpoints of the rules
ElevationInputs ==
    {0, 200, 349, 350, 399, 400, 405, 411, 412, 550, 600, 819, 820, 821, 900, S}
TemperatureInputs ==
    {0 - 20 * S, 0 - 10 * S - 1, 0 - 10 * S, 0 - 1, 0, 5 * S, 10 * S, 15 * S, 20 * S,
     28 * S, 30 * S, 35 * S}
MoistureInputs == {100, 150, 200, 300, 350, 400, 500, 600, 650, 700, 800}

BiomeInit ==
    /\ cell \in [elevation : ElevationInputs, temperature : TemperatureInputs,
                 moisture : MoistureInputs, sea_level : SeaLevels]
    /\ biome = "none"
    /\ pc = "classify_biome"
    /\ config = TerrainConfig(1, 1, cell.sea_level, 1, 0)
    /\ elevation = NoMap
    /\ temperature = NoMap
    /\ moisture = NoMap
    /\ PipelineIdle
    /\ OceanIdle
    /\ RendererIdle
    /\ CoreIdle

ClassifyBiome ==
    /\ pc = "classify_biome"
    /\ biome' = classify_biome(cell.elevation, cell.temperature, cell.moisture, cell.sea_level)
    /\ pc' = "classified"
    /\ UNCHANGED <<cell, beside_biome>>

BiomeNext == ClassifyBiome

BiomeSpec == BiomeInit /\ [][BiomeNext]_vars

CellIs(e, t, m, sl) ==
    cell = [elevation |-> e, temperature |-> t, moisture |-> m, sea_level |-> sl]
ClimateBiomes ==
    {"Ice", "Tundra", "BorealForest", "TemperateGrassland", "TemperateForest",
     "TemperateRainforest", "Shrubland", "Desert", "Savanna", "TropicalForest",
     "TropicalRainforest"}
\* (elevation - sea_level) / (1 - sea_level) < 0.02 and > 0.7, in integers
NearShore == (cell.elevation - cell.sea_level) * 50 < S - cell.sea_level
HighUp == (cell.elevation - cell.sea_level) * 10 > 7 * (S - cell.sea_level)

\* C8: the rules apply in order and the first match wins: deep ocean, ocean,
\* beach, mountain whatever the temperature and moisture, and only then a biome
\* chosen by temperature and moisture; the four sample calls give DeepOcean,
\* Desert, TropicalRainforest and Mountain.
C8_OrderedRules ==
    pc = "classified" =>
        /\ cell.elevation < cell.sea_level - 50 => biome = "DeepOcean"
        /\ (cell.elevation >= cell.sea_level - 50 /\ cell.elevation < cell.sea_level)
               => biome = "Ocean"
        /\ (cell.elevation >= cell.sea_level /\ NearShore) => biome = "Beach"
        /\ (cell.elevation >= cell.sea_level /\ ~NearShore /\ HighUp) => biome = "Mountain"
        /\ (cell.elevation >= cell.sea_level /\ ~NearShore /\ ~HighUp)
               => biome \in ClimateBiomes
        /\ CellIs(200, 15 * S, 500, 400) => biome = "DeepOcean"
        /\ CellIs(600, 35 * S, 100, 400) => biome = "Desert"
        /\ CellIs(550, 28 * S, 800, 400) => biome = "TropicalRainforest"
        /\ CellIs(900, 5 * S, 300, 400) => biome = "Mountain"

C8_Witness ==
    pc = "classified" /\ CellIs(550, 28 * S, 800, 400) /\ biome = "TropicalRainforest"

\* C9 as stated: a cell below sea_level that is cold enough is Ice.
C9_IceOverWater ==
    (pc = "classified" /\ cell.elevation < cell.sea_level
       /\ cell.temperature < 0 - 10 * S) => biome = "Ice"

\* C9 amended: the water bands are decided by elevation alone, a cell below
\* sea_level is DeepOcean or Ocean at every temperature; Ice is given only to
\* land between the beach and the mountain heights colder than -10 degrees.
C9_WaterByElevationAlone ==
    pc = "classified" =>
        /\ cell.elevation < cell.sea_level => biome \in {"DeepOcean", "Ocean"}
        /\ biome = "Ice" => /\ cell.elevation >= cell.sea_level
                            /\ ~NearShore /\ ~HighUp
                            /\ cell.temperature < 0 - 10 * S

C9_Witness ==
    /\ pc = "classified"
    /\ cell.elevation < cell.sea_level
    /\ cell.temperature < 0 - 10 * S
    /\ biome = "Ocean"

\* ------------------------------------------------------------------------
\* The render loop's terraforming, one frame at a time
\* ------------------------------------------------------------------------
PlanetWidth == 36
PlanetHeight == 2
MaxFrames == 1

beside_renderer ==
    <<seed, hi_first, run, rngs, plates_, plate_map, iter, drop, entering, maps, ocean,
      cell, biome, config, temperature, moisture, pc, beside_planet>>

\* a planet with cells just under the shore line and just under the beach's end
RendererInit ==
    /\ config = TerrainConfig(PlanetWidth, PlanetHeight, 400, 1, 0)
    /\ elevation = [width_ |-> PlanetWidth, height_ |-> PlanetHeight,
                    data_ |-> [i \in 0 .. PlanetWidth * PlanetHeight - 1 |->
                                  IF i % 2 = 0 THEN 399 ELSE 411]]
    /\ temperature = Heightmap(PlanetWidth, PlanetHeight, 15 * S)
    /\ moisture = Heightmap(PlanetWidth, PlanetHeight, 500)
    /\ biome_map = classify_biomes(elevation, temperature, moisture, config.sea_level)
    /\ renderer \in {[PlanetRenderer EXCEPT !.brush_size_idx_ = k] : k \in 0 .. 3}
    /\ frames = 0
    /\ pc = "run"
    /\ PipelineIdle
    /\ OceanIdle
    /\ BiomeIdle
    /\ CoreIdle

\* pick_planet: a miss, or a hit on a cell of the grid (the two ends of the
\* top row, where the brush wraps to either side)
Picks ==
    {[hit |-> FALSE, grid_x |-> 0, grid_y |-> 0]}
    \cup {[hit |-> TRUE, grid_x |-> x, grid_y |-> 0] : x \in {0, PlanetWidth - 1}}

\* one pass of the loop of PlanetRenderer::run: keys T and B, the pick, the
\* press edit and the scroll edit
Frame(key_t, key_b, pick_, right_mouse_down, key_shift, scroll_dy) ==
    LET mode == IF key_t /\ ~renderer.prev_t THEN ~renderer.terraform_mode_
                ELSE renderer.terraform_mode_
        idx == IF key_b /\ ~renderer.prev_b THEN (renderer.brush_size_idx_ + 1) % 4
               ELSE renderer.brush_size_idx_
        radius == brush_radii_[idx + 1]
        editing == mode /\ pick_.hit /\ right_mouse_down
        e1 == IF editing
              THEN terraform_brush(elevation, pick_.grid_x, pick_.grid_y, radius,
                                   IF key_shift THEN 0 - 8 ELSE 8)
              ELSE elevation
        b1 == IF editing
              THEN reclassify(biome_map, e1, temperature, moisture, config.sea_level,
                              pick_.grid_x, pick_.grid_y, radius)
              ELSE biome_map
        scrolling == editing /\ scroll_dy # 0
        e2 == IF scrolling
              THEN terraform_brush(e1, pick_.grid_x, pick_.grid_y, radius, scroll_dy * 20)
              ELSE e1
        b2 == IF scrolling
              THEN classify_biomes(e2, temperature, moisture, config.sea_level)
              ELSE b1
    IN  /\ pc = "run"
        /\ frames < MaxFrames
        /\ frames' = frames + 1
        /\ renderer' = [terraform_mode_ |-> mode, brush_size_idx_ |-> idx,
                        prev_t |-> key_t, prev_b |-> key_b]
        /\ IF editing /\ ~(columns_touched(pick_.grid_x, reclassify_reach(radius),
                                           elevation.width_)
                             \subseteq 0 .. elevation.width_ - 1)
           THEN /\ oob' = TRUE
                /\ UNCHANGED <<elevation, biome_map>>
           ELSE /\ elevation' = e2
                /\ biome_map' = b2
                /\ UNCHANGED oob
        /\ UNCHANGED beside_renderer

RendererNext ==
    \E key_t \in BOOLEAN, key_b \in BOOLEAN, pick_ \in Picks, right_mouse_down \in BOOLEAN,
       key_shift \in BOOLEAN, scroll_dy \in {0 - 1, 0, 1} :
        Frame(key_t, key_b, pick_, right_mouse_down, key_shift, scroll_dy)

RendererSpec == RendererInit /\ [][RendererNext]_vars

\* C10: after every frame's terraforming edits, press or scroll, at any pick and
\* any brush radius, every cell's biome tag is classify_biome of its elevation,
\* temperature and moisture: no edited cell keeps a stale tag.
C10_BiomeMapConsistent ==
    pc = "run" =>
        /\ ~oob
        /\ \A i \in DOMAIN elevation.data_ :
               biome_map[i] = classify_biome(elevation.data_[i], temperature.data_[i],
                                             moisture.data_[i], config.sea_level)

C10_Witness ==
    /\ pc = "run" /\ frames >= 1
    /\ renderer.brush_size_idx_ = 3
    /\ \E i \in DOMAIN elevation.data_ : i % 2 = 0 /\ biome_map[i] = "Beach"

\* ------------------------------------------------------------------------
\* Properties of the pipeline
\* ------------------------------------------------------------------------
Returned == pc \in {"generate_temperature", "generate_moisture", "done"}
ValidConfig == config.width >= 1 /\ config.height >= 1 /\ config.num_plates >= 1
Below(g, level) == Cardinality({i \in DOMAIN g.data_ : FLt(g.data_[i], level)})
PairwiseDistinct(g) == \A i, j \in DOMAIN g.data_ : i # j => g.data_[i] # g.data_[j]

C2_ElevationInRange ==
    Returned => \A i \in DOMAIN elevation.data_ :
                    IsNum(elevation.data_[i]) /\ 0 <= elevation.data_[i] /\ elevation.data_[i] <= S

StagesLeft ==
    CASE pc = "generate_plates" -> 4
      [] pc = "plates_to_elevation" -> 3
      [] pc = "apply_continental_noise" -> 2
      [] pc = "apply_mountain_ridges" -> 1
      [] OTHER -> 0
WorkLeft ==
    StagesLeft * (config.erosion_iterations + 1) * (MaxLifetime + 2)
    + (config.erosion_iterations - iter) * (MaxLifetime + 2)
    + (IF drop.alive THEN MaxLifetime + 1 - drop.step ELSE 0)
    + (IF Returned THEN 0 ELSE 1)

RECURSIVE Repeat(_, _)
Repeat(sq, n) == IF n <= 0 THEN << >> ELSE sq \o Repeat(sq, n - 1)

ExpectedDraws(num_plates, erosion_iterations) ==
    Repeat(<<"center_x", "center_y", "drift_x", "drift_y", "is_oceanic">>, num_plates)
    \o <<"continents", "detail", "ridge_noise">>
    \o Repeat(<<"drop_x", "drop_y">>, erosion_iterations)

IsPrefix(a, b) == Len(a) <= Len(b) /\ SubSeq(b, 1, Len(a)) = a

\* C5: generate draws, in this order, five values per plate, the three noise
\* seeds, and one position pair per erosion iteration; the sequence of draws is
\* a function of num_plates and erosion_iterations alone.
C5_DrawOrder ==
    LET expected == ExpectedDraws(config.num_plates, config.erosion_iterations)
    IN  /\ (~Returned /\ ~oob) => IsPrefix(Rng.log, expected)
        /\ pc = "generate_temperature" => Rng.log = expected

C5_Witness ==
    /\ pc = "generate_temperature"
    /\ config.num_plates >= 2 /\ config.erosion_iterations >= 1
    /\ entering # NoMap

\* C11: every cell of the grid generate_moisture returns lies in [0, 1].
C11_MoistureInRange ==
    pc = "done" => \A i \in DOMAIN moisture.data_ :
                       IsNum(moisture.data_[i]) /\ 0 <= moisture.data_[i] /\ moisture.data_[i] <= S

\* ------------------------------------------------------------------------
\* Heightmap on its own: a grid is constructed, cells of its top row are set,
\* then bulk operations, serialise and deserialise are called
\* ------------------------------------------------------------------------
MaxGrid == 2
MaxSets == 1
MaxBulk == 2

\* the variables outside the Heightmap machine
planet_vars ==
    <<config, seed, hi_first, run, pc, rngs, plates_, plate_map, elevation, iter, drop,
      entering, temperature, moisture, maps, ocean, cell, biome, biome_map, renderer, frames,
      kernel_vars>>
PlanetIdle ==
    /\ config = TerrainConfig(1, 1, 400, 1, 0)
    /\ pc = "idle"
    /\ elevation = NoMap
    /\ temperature = NoMap
    /\ moisture = NoMap
    /\ PipelineIdle
    /\ OceanIdle
    /\ BiomeIdle
    /\ RendererIdle
    /\ KernelIdle

\* a width whose square is one more than the largest u32 (65536 in the code)
Wide == 2 ^ 5
GridDims == ((0 .. MaxGrid) \X (0 .. MaxGrid)) \cup {<<Wide, Wide>>}
Fills == {0, S}
GridValues == {0 - FltMax, S, 3 * S}

HeightmapInit ==
    /\ hm = NoMap
    /\ other \in {NoMap, Heightmap(1, 2, S)}
    /\ writer = << >>
    /\ calls = NoCalls
    /\ prev = NoMap
    /\ PlanetIdle

\* Heightmap hm(width, height, fill);
Construct(width, height, value) ==
    /\ ~calls.built
    /\ hm' = Heightmap(width, height, value)
    /\ calls' = [calls EXCEPT !.built = TRUE]
    /\ UNCHANGED <<other, writer, prev, oob, planet_vars>>

\* hm.set(x, 0, value): the index is not checked
SetCell(x, value) ==
    /\ calls.built /\ ~oob
    /\ calls.bulk = 0 /\ calls.sets < MaxSets
    /\ x < hm.width_ /\ hm.height_ >= 1
    /\ IF index(hm, x, 0) \in DOMAIN hm.data_
       THEN hm' = set(hm, x, 0, value) /\ oob' = oob
       ELSE hm' = hm /\ oob' = TRUE
    /\ calls' = [calls EXCEPT !.sets = @ + 1]
    /\ UNCHANGED <<other, writer, prev, planet_vars>>

BulkEnabled == calls.built /\ ~oob /\ calls.bulk < MaxBulk
Called(name) ==
    /\ calls' = [calls EXCEPT !.bulk = @ + 1, !.last = name, !.last2 = calls.last]
    /\ prev' = hm

Fill(value) ==
    /\ BulkEnabled
    /\ hm' = fill(hm, value)
    /\ Called("fill")
    /\ UNCHANGED <<other, writer, oob, planet_vars>>

\* hm.add(other, scale): other.data_[i] is read for every i < data_.size()
Add(scale) ==
    /\ BulkEnabled
    /\ IF DOMAIN hm.data_ \subseteq DOMAIN other.data_
       THEN hm' = add(hm, other, scale) /\ oob' = oob
       ELSE hm' = hm /\ oob' = TRUE
    /\ Called("add")
    /\ UNCHANGED <<other, writer, planet_vars>>

Multiply(scale) ==
    /\ BulkEnabled
    /\ hm' = multiply(hm, scale)
    /\ Called("multiply")
    /\ UNCHANGED <<other, writer, oob, planet_vars>>

Clamp(lo, hi) ==
    /\ BulkEnabled
    /\ hm' = clamp(hm, lo, hi)
    /\ Called("clamp")
    /\ UNCHANGED <<other, writer, oob, planet_vars>>

\* hm.normalise(): *min_it is read, whatever the size
Normalise ==
    /\ BulkEnabled
    /\ IF hm.data_ # << >>
       THEN hm' = normalise(hm) /\ oob' = oob
       ELSE hm' = hm /\ oob' = TRUE
    /\ Called("normalise")
    /\ UNCHANGED <<other, writer, planet_vars>>

\* hm.blur(radius): get(sx, sy) for every x < width_, y < height_
Blur(radius) ==
    /\ BulkEnabled
    /\ IF hm.width_ * hm.height_ = Size(hm)
       THEN hm' = blur(hm, radius) /\ oob' = oob
       ELSE hm' = hm /\ oob' = TRUE
    /\ Called("blur")
    /\ UNCHANGED <<other, writer, planet_vars>>

\* hm.serialise(writer)
Serialise ==
    /\ BulkEnabled
    /\ writer' = serialise(hm, writer)
    /\ hm' = hm
    /\ Called("serialise")
    /\ UNCHANGED <<other, oob, planet_vars>>

\* BinaryReader reader(writer.buffer()); other.deserialise(reader);
\* cut: the reader holds the first four bytes only (a file cut short)
Deserialise(cut) ==
    /\ BulkEnabled
    /\ Len(writer) >= 4
    /\ LET d == deserialise(other, BinaryReader(IF cut THEN SubSeq(writer, 1, 4) ELSE writer))
       IN  /\ other' = d.hm
           /\ Called(IF d.threw THEN "deserialise threw" ELSE "deserialise")
    /\ hm' = hm
    /\ UNCHANGED <<writer, oob, planet_vars>>

HeightmapNext ==
    \/ \E d \in GridDims, v \in Fills : Construct(d[1], d[2], v)
    \/ \E x \in 0 .. MaxGrid, v \in GridValues : SetCell(x, v)
    \/ \E v \in Fills : Fill(v)
    \/ Add(S)
    \/ Multiply(2 * S)
    \/ Clamp(0, S)
    \/ Normalise
    \/ Blur(1)
    \/ Serialise
    \/ \E cut \in BOOLEAN : Deserialise(cut)

HeightmapSpec == HeightmapInit /\ [][HeightmapNext]_vars

Finite(g) == \A i \in DOMAIN g.data_ : IsNum(g.data_[i]) /\ ~IsInf(g.data_[i])
NormalisedTwice == calls.last = "normalise" /\ calls.last2 = "normalise" /\ ~oob

RoundTrip ==
    /\ calls.last = "deserialise" /\ calls.last2 = "serialise"
    /\ Len(writer) = 8 + 4 * Size(hm)

\* C13: deserialising the bytes serialise wrote for hm into another Heightmap
\* leaves that Heightmap with hm's width, height and cells.
C13_RoundTrip == RoundTrip => other = hm

C13_Witness ==
    /\ RoundTrip
    /\ hm.width_ = 2 /\ hm.height_ = 1
    /\ hm.data_[0] < 0 /\ hm.data_[1] > 0

\* C14: the data length of a Heightmap is width * height, after construction,
\* after deserialise and after every bulk operation.
C14_LengthIsWidthTimesHeight ==
    /\ calls.built => Size(hm) = hm.width_ * hm.height_
    /\ Size(other) = other.width_ * other.height_

\* ------------------------------------------------------------------------
\* ClimateGenerator on the grids of the climate tests: a flat land grid, and
\* a grid with ocean columns on the left and flat land on the right
\* ------------------------------------------------------------------------
CoastWidth == 8

FlatGrids == {Heightmap(w, h, land) : w \in Dims, h \in Dims, land \in {400, 500, S}}
\* x < k ? 0.2f : 0.6f
CoastGrids ==
    {[width_ |-> CoastWidth, height_ |-> h,
      data_ |-> [i \in 0 .. CoastWidth * h - 1 |-> IF i % CoastWidth < k THEN 200 ELSE 600]] :
        h \in Dims, k \in 1 .. 2}

ClimateInit ==
    /\ elevation \in FlatGrids \cup CoastGrids
    /\ config = TerrainConfig(elevation.width_, elevation.height_, 400, 1, 0)
    /\ seed \in Seeds
    /\ hi_first \in BOOLEAN
    /\ run = 1
    /\ pc = "generate_temperature"
    /\ rngs = <<RNG(seed), RNG(seed)>>
    /\ plates_ = << >>
    /\ plate_map = << >>
    /\ iter = 0
    /\ drop = NoDrop
    /\ entering = NoMap
    /\ temperature = NoMap
    /\ moisture = NoMap
    /\ maps = << >>
    /\ oob = FALSE
    /\ OceanIdle
    /\ BiomeIdle
    /\ RendererIdle
    /\ CoreIdle

ClimateNext == GenerateTemperature \/ GenerateMoisture

ClimateSpec == ClimateInit /\ [][ClimateNext]_vars

RECURSIVE RowSum(_, _, _)
\* the sum of row y of g from column x on
RowSum(g, y, x) == IF x >= g.width_ THEN 0 ELSE get(g, x, y) + RowSum(g, y, x + 1)
Flat == elevation \in FlatGrids
TemperatureReturned == Flat /\ pc \in {"generate_moisture", "done"}

\* C16 as stated: on a flat land grid the average temperature of the equator
\* row (y = height/2) exceeds that of the pole row (y = 0).
C16_EquatorWarmerAnyHeight ==
    TemperatureReturned =>
        RowSum(temperature, temperature.height_ \div 2, 0) > RowSum(temperature, 0, 0)

\* C16 amended: the same, on a flat land grid of at least two rows.
C16_EquatorWarmer ==
    (TemperatureReturned /\ temperature.height_ >= 2) =>
        RowSum(temperature, temperature.height_ \div 2, 0) > RowSum(temperature, 0, 0)

C16_Witness ==
    /\ TemperatureReturned
    /\ temperature.height_ = 3 /\ temperature.width_ >= 2
    /\ \E x \in 1 .. temperature.width_ - 1 : get(temperature, x, 1) # get(temperature, 0, 1)

Coast == elevation \in CoastGrids
LandCell(i) == ~FLt(elevation.data_[i], config.sea_level)
\* land cells i, j of one row, j farther from the ocean columns than i
Inland(i, j) ==
    /\ LandCell(i) /\ LandCell(j)
    /\ i \div config.width = j \div config.width
    /\ i < j

\* C17 as stated: on a left-ocean, right-land grid the moisture of the land
\* cells of a row does not increase with the distance from the ocean.
C17_MoistureNonIncreasing ==
    (Coast /\ pc = "done") =>
        \A i, j \in DOMAIN moisture.data_ :
            Inland(i, j) => moisture.data_[i] >= moisture.data_[j]

\* C17 amended: the moisture of the land cells of a row before the per-cell
\* noise term is added does not increase with the distance from the ocean.
C17_NonIncreasingBeforeNoise ==
    (Coast /\ pc = "done") =>
        LET cfg == ClimateConfig(config.sea_level)
            ocean_dist == compute_ocean_distance(elevation, cfg)
        IN  \A i, j \in DOMAIN moisture.data_ :
                Inland(i, j) =>
                    /\ ocean_dist.data_[i] < ocean_dist.data_[j]
                    /\ moisture_before_noise(elevation, ocean_dist, cfg, i)
                           >= moisture_before_noise(elevation, ocean_dist, cfg, j)

C17_Witness ==
    /\ Coast /\ pc = "done"
    /\ LET cfg == ClimateConfig(config.sea_level)
           ocean_dist == compute_ocean_distance(elevation, cfg)
       IN  \E i, j \in DOMAIN moisture.data_ :
               /\ Inland(i, j)
               /\ moisture_before_noise(elevation, ocean_dist, cfg, i)
                      > moisture_before_noise(elevation, ocean_dist, cfg, j)
               /\ moisture.data_[i] > 0 /\ moisture.data_[j] > 0

\* ------------------------------------------------------------------------
\* EventBus (core/events/EventBus.h)
\* ------------------------------------------------------------------------
\* constexpr LayerMask ALL_LAYERS = 0x1F;
ALL_LAYERS == 31
\* LayerID::COUNT
COUNT == 5
\* LayerMask is a u8
MaskMod == 2 ^ 8
\* constexpr LayerMask LAYER_BIT(LayerID layer) { return 1 << static_cast<u8>(layer); }
LAYER_BIT(layer) == (2 ^ layer) % MaskMod

\* a & b
RECURSIVE BitAnd(_, _)
BitAnd(a, b) ==
    IF a = 0 \/ b = 0 THEN 0
    ELSE (a % 2) * (b % 2) + 2 * BitAnd(a \div 2, b \div 2)

\* an Event; payload is the layer of a LayerTickedEvent and 0 otherwise
Event(id, type, payload, timestamp, target) ==
    [id |-> id, type |-> type, payload |-> payload, timestamp |-> timestamp,
     target |-> target]

\* bus.emit(payload, timestamp, target)
emit(b, type, payload, timestamp, target) ==
    [b EXCEPT !.pending_ = Append(@, Event(b.next_event_id_, type, payload, timestamp, target)),
              !.next_event_id_ = @ + 1]

\* bus.subscribe<T>(layer, handler); emits tells whether the handler calls bus.emit
subscribe(b, layer, type, emits) ==
    [b EXCEPT !.handlers_ = Append(@, [layer |-> layer, type |-> type, emits |-> emits])]

NonDecreasing(q) == \A i, j \in DOMAIN q : i < j => q[i].timestamp <= q[j].timestamp
\* std::sort(pending_.begin(), pending_.end(), a.timestamp < b.timestamp): the order of
\* events with equal timestamps is unspecified, so every sorted arrangement is a result
sort(q) ==
    { [i \in DOMAIN q |-> q[p[i]]] :
        p \in { f \in [DOMAIN q -> DOMAIN q] :
                  /\ \A i, j \in DOMAIN q : i # j => f[i] # f[j]
                  /\ NonDecreasing([i \in DOMAIN q |-> q[f[i]]]) } }

\* if (event.target & LAYER_BIT(entry.layer))
targets(event, entry) == BitAnd(event.target, LAYER_BIT(entry.layer)) # 0
matches(event, entry) == entry.type = event.type /\ targets(event, entry)

\* entry.handler(event): the call is recorded; a handler that emits calls bus.emit,
\* which is pending_.push_back while dispatch iterates over pending_.  When the
\* push_back reallocates (realloc), the iterators and the reference `event` of the
\* loop in dispatch dangle from then on.
call_handler(st, h, event, call, realloc) ==
    LET got == [st EXCEPT !.received =
                    Append(@, [handler |-> h, id |-> event.id,
                               timestamp |-> event.timestamp, call |-> call])]
    IN  IF st.bus.handlers_[h].emits
        THEN [got EXCEPT !.bus = emit(@, "DebugEvent", 0, event.timestamp, ALL_LAYERS),
                         !.emitted = Append(@, [id |-> st.bus.next_event_id_,
                                                type |-> "DebugEvent",
                                                target |-> ALL_LAYERS, epoch |-> call]),
                         !.dangling = @ \/ realloc]
        ELSE got

\* for (const auto& entry : it->second) if (...) entry.handler(event);
RECURSIVE deliver(_, _, _, _, _)
deliver(st, event, h, call, realloc) ==
    IF h > Len(st.bus.handlers_) THEN st
    ELSE deliver(IF matches(event, st.bus.handlers_[h])
                 THEN call_handler(st, h, event, call, realloc) ELSE st,
                 event, h + 1, call, realloc)

\* *it of the range-for.  The loop holds iterators into the buffer pending_ had when it
\* began (q).  Once they dangle the freed buffer is either still intact or has been
\* handed to log_ as it grows (reused): slot i then holds the i-th event of log_.
read_event(st, q, i, reused) ==
    IF st.dangling /\ reused /\ i \in DOMAIN st.bus.log_ THEN st.bus.log_[i] ELSE q[i]

\* for (const auto& event : pending_) { log_.append(event); ... } pending_.clear();
\* the end iterator is taken once, so the loop covers the Len(q) events sorted
RECURSIVE dispatch_loop(_, _, _, _, _, _)
dispatch_loop(st, q, i, call, realloc, reused) ==
    IF i > Len(q) THEN [st EXCEPT !.bus.pending_ = << >>]
    ELSE LET event == read_event(st, q, i, reused)
             logged == [st EXCEPT !.bus.log_ = Append(@, event)]
         IN  dispatch_loop(deliver(logged, event, 1, call, realloc), q, i + 1, call,
                           realloc, reused)

\* what a push_back during the loop can do: <<realloc, reused>>
Reallocations == {<<FALSE, FALSE>>, <<TRUE, FALSE>>, <<TRUE, TRUE>>}

\* bus.dispatch(): every result the call can have
dispatch(b, got, sent, call) ==
    { dispatch_loop([bus |-> b, received |-> got, emitted |-> sent, dangling |-> FALSE],
                    q, 1, call, r[1], r[2]) :
        q \in sort(b.pending_), r \in Reallocations }

MaxEmits == 4
MaxDispatches == 2
MaxHandlers == 2
Timestamps == {1, 2}

\* the variables outside the EventBus machine
beside_bus ==
    <<config, seed, hi_first, run, pc, rngs, plates_, plate_map, elevation, iter, drop,
      entering, temperature, moisture, maps, ocean, oob, cell, biome, biome_map, renderer,
      frames, hm, other, writer, calls, prev, scheduler, tick_count_, registry>>

EventBusInit ==
    /\ PlanetIdle
    /\ HeightmapIdle

\* the events the callers emit: DebugEvents to all layers, one to the Planetary layer
\* alone, and an EntityCreatedEvent
Emits ==
    ({"DebugEvent"} \X Timestamps \X {ALL_LAYERS})
        \cup {<<"DebugEvent", 1, LAYER_BIT(1)>>, <<"EntityCreatedEvent", 1, ALL_LAYERS>>}

\* bus.emit(payload, timestamp, target)
Emit(type, timestamp, target) ==
    /\ trail.emits < MaxEmits
    /\ bus' = emit(bus, type, 0, timestamp, target)
    /\ emitted' = Append(emitted, [id |-> bus.next_event_id_, type |-> type,
                                   target |-> target, epoch |-> trail.dispatches])
    /\ trail' = [trail EXCEPT !.emits = @ + 1, !.last = "call"]
    /\ UNCHANGED <<received, beside_bus>>

\* bus.subscribe<DebugEvent>(layer, handler)
Subscribe(layer, emits) ==
    /\ Len(bus.handlers_) < MaxHandlers
    /\ bus' = subscribe(bus, layer, "DebugEvent", emits)
    /\ trail' = [trail EXCEPT !.last = "call"]
    /\ UNCHANGED <<received, emitted, beside_bus>>

\* what a call of dispatch leaves in the record of calls
Dispatched(t) ==
    [t EXCEPT !.dispatches = @ + 1, !.last = "dispatch",
              !.log_before = Len(bus.log_),
              !.handlers_at = Append(@, Len(bus.handlers_))]

\* bus.dispatch()
Dispatch ==
    /\ trail.dispatches < MaxDispatches
    /\ \E out \in dispatch(bus, received, emitted, trail.dispatches + 1) :
          /\ bus' = out.bus
          /\ received' = out.received
          /\ emitted' = out.emitted
    /\ trail' = Dispatched(trail)
    /\ UNCHANGED beside_bus

EventBusNext ==
    \/ \E e \in Emits : Emit(e[1], e[2], e[3])
    \/ \E layer \in {0, 1}, emits \in BOOLEAN : Subscribe(layer, emits)
    \/ Dispatch

EventBusSpec == EventBusInit /\ [][EventBusNext]_vars

\* the number of entries of q that satisfy Test
CountIn(q, Test(_)) == Cardinality({ i \in DOMAIN q : Test(q[i]) })

\* the dispatch call that is the next one after the emit of e has returned
NextDispatchDone(e) == trail.dispatches > e.epoch

LoggedOnce(e) == LET Same(x) == x.id = e.id IN CountIn(bus.log_, Same) = 1

\* every matching handler subscribed when that dispatch call began got e exactly once
DeliveredOnce(e) ==
    \A h \in 1 .. trail.handlers_at[e.epoch + 1] :
        LET Got(r) == r.handler = h /\ r.id = e.id
        IN  matches(e, bus.handlers_[h]) => CountIn(received, Got) = 1

\* C18: every event passed to emit, an event emitted by a handler during dispatch()
\* included, is delivered to the matching handlers and appended to the log exactly
\* once by the next dispatch() call, and pending_count() is 0 after dispatch() returns.
\* (An event emitted by a handler during dispatch call c has epoch c: the next
\* dispatch call is taken to be call c + 1.)
C18_DeliveredOnceByNextDispatch ==
    /\ \A k \in DOMAIN emitted :
          NextDispatchDone(emitted[k]) =>
              LoggedOnce(emitted[k]) /\ DeliveredOnce(emitted[k])
    /\ trail.last = "dispatch" => Len(bus.pending_) = 0

\* the events the last dispatch call appended to the log, and the handler calls it made
LastLogged == SubSeq(bus.log_, trail.log_before + 1, Len(bus.log_))
LastReceived == LET InLast(r) == r.call = trail.dispatches IN SelectSeq(received, InLast)

\* the handler calls follow the order of the log entries
SameOrder(got, seg) ==
    \A i, j \in DOMAIN got :
        i < j => \E a, b \in DOMAIN seg :
                     a <= b /\ seg[a].id = got[i].id /\ seg[b].id = got[j].id

\* C19: within one dispatch() call the handlers receive the pending events in
\* non-decreasing timestamp order, whatever the order of the emits, and the events
\* are appended to the log in that same order.
C19_TimestampOrder ==
    trail.last = "dispatch" =>
        /\ NonDecreasing(LastReceived)
        /\ NonDecreasing(LastLogged)
        /\ SameOrder(LastReceived, LastLogged)

\* ------------------------------------------------------------------------
\* TickScheduler (core/time/TickScheduler.h) and Layer::tick
\* ------------------------------------------------------------------------
TickLevel(duration, active_layers) == [duration |-> duration, active_layers |-> active_layers]

\* SimTime::from_years(y): static_cast<i64>(y * 365.25), for a whole y >= 0
from_years(y) == y * 365 + y \div 4

\* scheduler.add_level(level)
add_level(s, level) == [s EXCEPT !.levels_ = Append(@, level)]

\* scheduler.register_layer(layer)
register_layer(s, layer) == [s EXCEPT !.layers_ = Append(@, layer)]

\* scheduler.configure_defaults(): detail, history, evolution, geological, cosmic
configure_defaults(s) ==
    add_level(add_level(add_level(add_level(add_level(s,
        TickLevel(1, ALL_LAYERS)),
        TickLevel(from_years(1), ALL_LAYERS)),
        TickLevel(from_years(100), 7)),
        TickLevel(from_years(10 * 1000), 3)),
        TickLevel(from_years(1000 * 1000), 1))

\* the test left out: every registered layer ticks
active_always(level, layer) == TRUE
\* level.active_layers & LAYER_BIT(layer->id())
active(level, layer) == BitAnd(level.active_layers, LAYER_BIT(LayerPool[layer].id)) # 0

\* the part of the state a call of step works on
Kernel ==
    [bus |-> bus, scheduler |-> scheduler, tick_count_ |-> tick_count_,
     received |-> received, emitted |-> emitted, dispatches |-> trail.dispatches]

\* layer->tick(current_time, delta): increment_tick(); CosmologicalLayer also emits
\* LayerTickedEvent{id, current_time, delta} at current_time
tick(k, layer, current_time) ==
    LET counted == [k EXCEPT !.tick_count_[layer] = @ + 1]
    IN  IF LayerPool[layer].emits
        THEN [counted EXCEPT
                 !.bus = emit(@, "LayerTickedEvent", LayerPool[layer].id, current_time,
                              ALL_LAYERS),
                 !.emitted = Append(@, [id |-> k.bus.next_event_id_,
                                        type |-> "LayerTickedEvent",
                                        target |-> ALL_LAYERS, epoch |-> k.dispatches])]
        ELSE counted

\* for (auto* layer : layers_) if (level.active_layers & layer_bit) layer->tick(...)
RECURSIVE tick_layers(_, _, _)
tick_layers(k, level, i) ==
    IF i > Len(k.scheduler.layers_) THEN k
    ELSE LET layer == k.scheduler.layers_[i]
         IN  tick_layers(IF active(level, layer)
                         THEN tick(k, layer, k.scheduler.current_time_) ELSE k,
                         level, i + 1)

\* a scheduler that lets pause go unnoticed
halted_without_levels(s) == Len(s.levels_) = 0
\* if (paused_ || levels_.empty()) return current_time_;
halted(s) == s.paused_ \/ Len(s.levels_) = 0

\* scheduler.step(): every result the call can have
step(k) ==
    IF halted(k.scheduler) THEN {k}
    ELSE LET level == k.scheduler.levels_[k.scheduler.active_level_ + 1]
             ticked == tick_layers(k, level, 1)
             now == k.scheduler.current_time_ + level.duration
             sent == [ticked EXCEPT
                         !.scheduler.current_time_ = now,
                         !.bus = emit(@, "LayerTickedEvent", COUNT, now, ALL_LAYERS),
                         !.emitted = Append(@, [id |-> ticked.bus.next_event_id_,
                                                type |-> "LayerTickedEvent",
                                                target |-> ALL_LAYERS,
                                                epoch |-> k.dispatches])]
         IN  { [sent EXCEPT !.bus = out.bus, !.received = out.received,
                            !.emitted = out.emitted, !.dispatches = @ + 1] :
                 out \in dispatch(sent.bus, sent.received, sent.emitted,
                                  k.dispatches + 1) }

\* for (size_t i = 0; i < num_ticks; i++) step();
RECURSIVE steps(_, _)
steps(ks, n) == IF n = 0 THEN ks ELSE steps(UNION { step(k) : k \in ks }, n - 1)

\* a run that leaves the scheduler resumed
run_ticks_resumed(k, num_ticks) == steps({[k EXCEPT !.scheduler.paused_ = FALSE]}, num_ticks)
\* scheduler.run(num_ticks): unpaused for the duration of the call
run_ticks(k, num_ticks) ==
    { [out EXCEPT !.scheduler.paused_ = k.scheduler.paused_] :
        out \in steps({[k EXCEPT !.scheduler.paused_ = FALSE]}, num_ticks) }

MaxLevels == 1
MaxLayers == 2
MaxSteps == 2

\* the variables outside the kernel machines
beside_kernel ==
    <<config, seed, hi_first, run, pc, rngs, plates_, plate_map, elevation, iter, drop,
      entering, temperature, moisture, maps, ocean, oob, cell, biome, biome_map, renderer,
      frames, hm, other, writer, calls, prev, registry>>

\* handlers subscribed before the scheduler runs (the integration tests count the
\* LayerTickedEvents the Planetary layer sees)
Subscriptions ==
    { << >>,
      << [layer |-> 1, type |-> "LayerTickedEvent", emits |-> FALSE] >>,
      << [layer |-> 1, type |-> "LayerTickedEvent", emits |-> TRUE] >> }

SchedulerInit ==
    /\ bus \in { [EventBus EXCEPT !.handlers_ = h] : h \in Subscriptions }
    /\ scheduler = TickScheduler
    /\ tick_count_ = [l \in DOMAIN LayerPool |-> 0]
    /\ received = << >>
    /\ emitted = << >>
    /\ trail = NoTrail
    /\ registry = Registry
    /\ config = TerrainConfig(1, 1, 400, 1, 0)
    /\ pc = "idle"
    /\ elevation = NoMap
    /\ temperature = NoMap
    /\ moisture = NoMap
    /\ PipelineIdle
    /\ OceanIdle
    /\ BiomeIdle
    /\ RendererIdle
    /\ HeightmapIdle

\* a call that leaves the layers alone
NoStep ==
    [trail EXCEPT !.last = "configure", !.ran = 0, !.ticks_before = tick_count_,
                  !.level_before = TickLevel(0, 0), !.before = NoTrail.before]

AddLevel(duration, active_layers) ==
    /\ Len(scheduler.levels_) < MaxLevels
    /\ scheduler' = add_level(scheduler, TickLevel(duration, active_layers))
    /\ trail' = NoStep
    /\ UNCHANGED <<bus, tick_count_, received, emitted, beside_kernel>>

ConfigureDefaults ==
    /\ Len(scheduler.levels_) < MaxLevels
    /\ scheduler' = configure_defaults(scheduler)
    /\ trail' = NoStep
    /\ UNCHANGED <<bus, tick_count_, received, emitted, beside_kernel>>

RegisterLayer(layer) ==
    /\ Len(scheduler.layers_) < MaxLayers
    /\ scheduler' = register_layer(scheduler, layer)
    /\ trail' = NoStep
    /\ UNCHANGED <<bus, tick_count_, received, emitted, beside_kernel>>

\* if (idx < levels_.size()) active_level_ = idx;
SetActiveLevel(idx) ==
    /\ scheduler' = IF idx < Len(scheduler.levels_)
                    THEN [scheduler EXCEPT !.active_level_ = idx] ELSE scheduler
    /\ trail' = NoStep
    /\ UNCHANGED <<bus, tick_count_, received, emitted, beside_kernel>>

Pause ==
    /\ scheduler' = [scheduler EXCEPT !.paused_ = TRUE]
    /\ trail' = NoStep
    /\ UNCHANGED <<bus, tick_count_, received, emitted, beside_kernel>>

Resume ==
    /\ scheduler' = [scheduler EXCEPT !.paused_ = FALSE]
    /\ trail' = NoStep
    /\ UNCHANGED <<bus, tick_count_, received, emitted, beside_kernel>>

\* the state a call of step or run leaves
Stepped(out, name, ran) ==
    /\ bus' = out.bus
    /\ scheduler' = out.scheduler
    /\ tick_count_' = out.tick_count_
    /\ received' = out.received
    /\ emitted' = out.emitted
    /\ trail' = [trail EXCEPT
                    !.last = name,
                    !.steps = @ + ran,
                    !.ran = ran,
                    !.dispatches = out.dispatches,
                    !.ticks_before = tick_count_,
                    !.before = [scheduler |-> scheduler, bus |-> bus,
                                dispatches |-> trail.dispatches],
                    !.level_before =
                        IF ran = 0 THEN TickLevel(0, 0)
                        ELSE scheduler.levels_[scheduler.active_level_ + 1]]
    /\ UNCHANGED beside_kernel

\* scheduler.step()
Step ==
    /\ trail.steps < MaxSteps
    /\ \E out \in step(Kernel) :
          Stepped(out, "step",
                  IF scheduler.paused_ \/ Len(scheduler.levels_) = 0 THEN 0 ELSE 1)

\* scheduler.run(num_ticks)
Run(num_ticks) ==
    /\ trail.steps + num_ticks <= MaxSteps
    /\ \E out \in run_ticks(Kernel, num_ticks) :
          Stepped(out, "run", IF Len(scheduler.levels_) = 0 THEN 0 ELSE num_ticks)

SchedulerNext ==
    \/ AddLevel(1, LAYER_BIT(1))
    \/ ConfigureDefaults
    \/ \E layer \in TestLayers : RegisterLayer(layer)
    \/ \E idx \in {0, 2, 4} : SetActiveLevel(idx)
    \/ Pause
    \/ Resume
    \/ Step
    \/ \E num_ticks \in 1 .. 2 : Run(num_ticks)

SchedulerSpec == SchedulerInit /\ [][SchedulerNext]_vars

\* how many times the layer object was registered
Registrations(layer) ==
    Cardinality({ i \in DOMAIN scheduler.layers_ : scheduler.layers_[i] = layer })
\* the calls of tick the last call of step or run made on the layer object
TicksOf(layer) == tick_count_[layer] - trail.ticks_before[layer]
Stepping == trail.last \in {"step", "run"} /\ trail.ran > 0
DefaultLevels == scheduler.levels_ = configure_defaults(TickScheduler).levels_
\* the layers whose id is LayerID::Cosmological
Cosmological(layer) == LayerPool[layer].id = 0

\* C20 as stated: on each unpaused step at active level L, tick() of a registered
\* layer is called exactly once if its bit is set in the active_layers of L and not at
\* all otherwise (a run of n steps: n times); with the default levels, at level 4
\* only the Cosmological layer ticks.
C20_TickedOnceIfActive ==
    Stepping =>
        /\ \A layer \in DOMAIN LayerPool :
              Registrations(layer) > 0 =>
                  TicksOf(layer) =
                      IF active(trail.level_before, layer) THEN trail.ran ELSE 0
        /\ DefaultLevels /\ scheduler.active_level_ = 4 =>
              \A layer \in DOMAIN LayerPool : TicksOf(layer) > 0 => Cosmological(layer)

\* C20 amended: tick() is called once for every registration of the layer (so exactly
\* once for a layer registered once) if its bit is set in the active_layers of L, and
\* not at all otherwise; a layer that is not registered never ticks; with the default
\* levels, at level 4 only the Cosmological layer ticks.
C20_TickedOncePerRegistration ==
    /\ Stepping =>
          /\ \A layer \in DOMAIN LayerPool :
                TicksOf(layer) =
                    IF active(trail.level_before, layer)
                    THEN trail.ran * Registrations(layer) ELSE 0
          /\ DefaultLevels /\ scheduler.active_level_ = 4 =>
                \A layer \in DOMAIN LayerPool : TicksOf(layer) > 0 => Cosmological(layer)
    /\ trail.last \in {"step", "run"} /\ trail.ran = 0 =>
          \A layer \in DOMAIN LayerPool : TicksOf(layer) = 0

\* a step at the default cosmic level with the Cosmological layer and another layer
\* registered: the first ticked, the other did not
C20_Witness ==
    /\ Stepping
    /\ DefaultLevels
    /\ scheduler.active_level_ = 4
    /\ \E a, b \in DOMAIN LayerPool :
          /\ Registrations(a) = 1 /\ Registrations(b) = 1
          /\ Cosmological(a) /\ ~Cosmological(b)
          /\ TicksOf(a) = trail.ran /\ TicksOf(b) = 0

\* the layers the level of the last call had active
ActiveBefore(layer) == Registrations(layer) > 0 /\ active(trail.level_before, layer)

\* C21: a TickScheduler starts paused; while it is paused step() ticks no layer,
\* emits and dispatches no event and leaves current_time unchanged; after resume()
\* each step() ticks the active layers again.
C21_PausedStepDoesNothing ==
    /\ trail.last = "none" => scheduler.paused_
    /\ trail.last = "step" /\ trail.before.scheduler.paused_ =>
          /\ tick_count_ = trail.ticks_before
          /\ bus = trail.before.bus
          /\ trail.dispatches = trail.before.dispatches
          /\ scheduler = trail.before.scheduler
    /\ trail.last = "step" /\ ~trail.before.scheduler.paused_
            /\ Len(trail.before.scheduler.levels_) > 0 =>
          /\ \A layer \in DOMAIN LayerPool : ActiveBefore(layer) => TicksOf(layer) >= 1
          /\ scheduler.current_time_ =
                 trail.before.scheduler.current_time_ + trail.level_before.duration

\* a paused step on a scheduler with a level, whose registered active layer has
\* ticked before (during a run or a resumed step)
C21_Witness ==
    /\ trail.last = "step"
    /\ trail.before.scheduler.paused_
    /\ Len(scheduler.levels_) > 0
    /\ \E layer \in DOMAIN LayerPool :
          /\ Registrations(layer) > 0
          /\ active(scheduler.levels_[scheduler.active_level_ + 1], layer)
          /\ tick_count_[layer] > 0
          /\ TicksOf(layer) = 0

\* C22: run(n) performs exactly n steps at the active level even when the scheduler
\* is paused, advances current_time by exactly n times that level's duration, and
\* leaves the paused flag with the value it had before the call.
C22_RunStepsRegardlessOfPause ==
    trail.last = "run" /\ Len(trail.before.scheduler.levels_) > 0 =>
        /\ trail.dispatches = trail.before.dispatches + trail.ran
        /\ \A layer \in DOMAIN LayerPool :
              TicksOf(layer) =
                  IF active(trail.level_before, layer)
                  THEN trail.ran * Registrations(layer) ELSE 0
        /\ scheduler.current_time_ =
               trail.before.scheduler.current_time_
                   + trail.ran * trail.level_before.duration
        /\ scheduler.paused_ = trail.before.scheduler.paused_

\* a run of two ticks on a paused scheduler: two ticks of a layer, still paused
C22_Witness ==
    /\ trail.last = "run"
    /\ trail.ran = 2
    /\ trail.before.scheduler.paused_
    /\ scheduler.paused_
    /\ scheduler.current_time_ = 2 * trail.level_before.duration
    /\ \E layer \in DOMAIN LayerPool : TicksOf(layer) = 2

\* ------------------------------------------------------------------------
\* Simulation snapshots (main.cpp: save_snapshot, load_snapshot)
\* ------------------------------------------------------------------------
\* write_u8, write_u64, write_i64, write_string: low byte first; the values written
\* here are below 2^31, so the high four bytes of a 64-bit field are zero
write_u8(v) == <<v % 256>>
write_u64(v) == write_u32(v) \o write_u32(0)
write_i64(v) == write_u64(v)
write_string(v) == write_u32(Len(v)) \o v
\* the low word of the eight bytes at buf[pos + 1 .. pos + 8]
read_u64(buf, pos) == read_u32(buf, pos)
read_i64(buf, pos) == read_u64(buf, pos)

\* "GODSIM"
Magic == <<71, 79, 68, 83, 73, 77>>
\* Simulation sim(42)
SimSeed == 42

\* layer->serialise(writer): the tick count; PlanetaryLayer adds the generated flag
serialise_layer(layer, count, buf) ==
    IF LayerPool[layer].kind = "Test" THEN buf
    ELSE IF LayerPool[layer].kind = "Planetary"
    THEN buf \o write_u64(count) \o write_u8(0)
    ELSE buf \o write_u64(count)

\* layer->deserialise(reader) with the reader at pos
deserialise_layer(layer, counts, buf, pos) ==
    IF LayerPool[layer].kind = "Test"
    THEN [tick_count_ |-> counts, pos_ |-> pos, threw |-> FALSE]
    ELSE IF pos + 8 > Len(buf) THEN [tick_count_ |-> counts, pos_ |-> pos, threw |-> TRUE]
    ELSE LET read == [counts EXCEPT ![layer] = read_u64(buf, pos)]
         IN  IF LayerPool[layer].kind = "Planetary"
             THEN [tick_count_ |-> read,
                   pos_ |-> IF pos + 9 > Len(buf) THEN pos + 8 ELSE pos + 9,
                   threw |-> pos + 9 > Len(buf)]
             ELSE [tick_count_ |-> read, pos_ |-> pos + 8, threw |-> FALSE]

RECURSIVE serialise_layers(_, _, _, _)
\* for (const auto& layer : layers_) { write_u8(id); layer->serialise(writer); }
serialise_layers(layers, counts, i, buf) ==
    IF i > Len(layers) THEN buf
    ELSE serialise_layers(layers, counts, i + 1,
             serialise_layer(layers[i], counts[layers[i]],
                             buf \o write_u8(LayerPool[layers[i]].id)))

\* sim.save_snapshot(path): the bytes of the file
save_snapshot(s, counts) ==
    serialise_layers(s.layers_, counts, 1,
        write_string(Magic) \o write_u32(1) \o write_i64(s.current_time_)
            \o write_u64(SimSeed) \o write_u64(s.active_level_)
            \o write_u32(Len(s.layers_)))

\* for (auto& layer : layers_) if (layer->id() == layer_id) { ...; break; }
first_with_id(layers, id) ==
    CHOOSE i \in DOMAIN layers :
        /\ LayerPool[layers[i]].id = id
        /\ \A j \in DOMAIN layers : LayerPool[layers[j]].id = id => i <= j

RECURSIVE load_layers(_, _, _, _, _)
\* for (u32 i = 0; i < layer_count; i++): read the id, deserialise the matching layer
load_layers(layers, counts, buf, pos, left) ==
    IF left = 0 THEN [tick_count_ |-> counts, threw |-> FALSE]
    ELSE IF pos + 1 > Len(buf) THEN [tick_count_ |-> counts, threw |-> TRUE]
    ELSE LET layer_id == buf[pos + 1]
         IN  IF \A i \in DOMAIN layers : LayerPool[layers[i]].id # layer_id
             THEN load_layers(layers, counts, buf, pos + 1, left - 1)
             ELSE LET d == deserialise_layer(layers[first_with_id(layers, layer_id)],
                                             counts, buf, pos + 1)
                  IN  IF d.threw THEN [tick_count_ |-> d.tick_count_, threw |-> TRUE]
                      ELSE load_layers(layers, d.tick_count_, buf, d.pos_, left - 1)

\* sim.load_snapshot(path): the scheduler and the tick counts the call leaves, and
\* whether it ended in an exception or an abort
load_snapshot(s, counts, buf) ==
    LET failed == [scheduler |-> s, tick_count_ |-> counts, threw |-> TRUE]
    IN  IF Len(buf) < 4 \/ 4 + read_u32(buf, 0) > Len(buf) THEN failed
        ELSE LET at == 4 + read_u32(buf, 0)
             IN  IF SubSeq(buf, 5, at) # Magic \/ at + 4 > Len(buf) THEN failed
                 ELSE IF read_u32(buf, at) # 1 \/ at + 12 > Len(buf) THEN failed
                 ELSE LET timed == [s EXCEPT !.current_time_ = read_i64(buf, at + 4)]
                      IN  IF at + 28 > Len(buf)
                          THEN [failed EXCEPT !.scheduler = timed]
                          ELSE LET idx == read_u64(buf, at + 20)
                                   levelled == IF idx < Len(s.levels_)
                                          THEN [timed EXCEPT !.active_level_ = idx]
                                          ELSE timed
                               IN  IF at + 32 > Len(buf)
                                   THEN [failed EXCEPT !.scheduler = levelled]
                                   ELSE LET l == load_layers(s.layers_, counts, buf,
                                                     at + 32, read_u32(buf, at + 28))
                                        IN  [scheduler |-> levelled,
                                             tick_count_ |-> l.tick_count_,
                                             threw |-> l.threw]

\* the layers added to the simulation before initialise()
SimLayers == { <<1, 4>>, <<4, 1>>, <<1, 3>>, <<1, 4, 3>> }

\* Simulation sim(42); sim.add_layer<...>() ...; sim.initialise();
SnapshotInit ==
    /\ bus = EventBus
    /\ \E layers \in SimLayers :
          scheduler = [configure_defaults(TickScheduler) EXCEPT !.layers_ = layers]
    /\ tick_count_ = [l \in DOMAIN LayerPool |-> 0]
    /\ received = << >>
    /\ emitted = << >>
    /\ trail = NoTrail
    /\ registry = Registry
    /\ config = TerrainConfig(1, 1, 400, 1, 0)
    /\ pc = "idle"
    /\ elevation = NoMap
    /\ temperature = NoMap
    /\ moisture = NoMap
    /\ PipelineIdle
    /\ OceanIdle
    /\ BiomeIdle
    /\ RendererIdle
    /\ HeightmapIdle

\* the variables a snapshot call leaves alone
beside_snapshot ==
    <<config, seed, hi_first, run, pc, rngs, plates_, plate_map, elevation, iter, drop,
      entering, temperature, moisture, maps, ocean, oob, cell, biome, biome_map, renderer,
      frames, hm, other, calls, prev, bus, received, emitted, registry>>

\* sim.save_snapshot(path)
SaveSnapshot ==
    /\ writer' = save_snapshot(scheduler, tick_count_)
    /\ trail' = [NoStep EXCEPT
                    !.last = "save",
                    !.saved = [time |-> scheduler.current_time_,
                               level |-> scheduler.active_level_,
                               ticks |-> tick_count_, steps |-> trail.steps]]
    /\ UNCHANGED <<scheduler, tick_count_, beside_snapshot>>

\* sim.load_snapshot(path) of the file a save_snapshot has written
LoadSnapshot ==
    /\ writer # << >>
    /\ LET out == load_snapshot(scheduler, tick_count_, writer)
       IN  /\ scheduler' = out.scheduler
           /\ tick_count_' = out.tick_count_
           /\ trail' = [NoStep EXCEPT !.last = IF out.threw THEN "failed" ELSE "load"]
    /\ UNCHANGED <<writer, beside_snapshot>>

\* sim.set_tick_level(l), sim.resume(), sim.step(), sim.run(n) are the scheduler's
SnapshotNext ==
    \/ \E idx \in {0, 2, 4} : SetActiveLevel(idx)
    \/ Resume
    \/ Step
    \/ \E num_ticks \in 1 .. 2 : Run(num_ticks)
    \/ SaveSnapshot
    \/ LoadSnapshot

SnapshotSpec == SnapshotInit /\ [][SnapshotNext]_vars

\* the snapshot was taken, the simulation has ticked since, and the file was loaded
Reloaded == trail.last = "load"

\* C23: after save_snapshot at time T followed by any number of further ticks,
\* load_snapshot sets the simulation back: current_time is T, the active tick level
\* is the saved one and the tick count of every layer is the saved one.
C23_LoadRestores ==
    Reloaded =>
        /\ scheduler.current_time_ = trail.saved.time
        /\ scheduler.active_level_ = trail.saved.level
        /\ \A i \in DOMAIN scheduler.layers_ :
              tick_count_[scheduler.layers_[i]] = trail.saved.ticks[scheduler.layers_[i]]

\* ------------------------------------------------------------------------
\* RNG state management (core/rng/RNG.h: state, restore)
\* ------------------------------------------------------------------------
\* next_u32(): engine_()
next_u32(rng, tag) ==
    LET e == Engine(rng)
    IN  [v |-> e.v, rng |-> Tagged(e.rng, tag)]

\* state(): {initial_seed_, advance_count_}
state(rng) == <<rng.initial_seed_, rng.advance_count_>>

RECURSIVE replay(_, _)
\* for (u64 i = 0; i < advances; i++) { engine_(); advance_count_++; }
replay(rng, advances) ==
    IF advances = 0 THEN rng
    ELSE replay([Engine(rng).rng EXCEPT !.advance_count_ = @ + 1], advances - 1)

\* restore(seed, advances): engine_ = pcg32(seed), then the advances replayed
restore(rng, seed0, advances) ==
    replay([rng EXCEPT !.initial_seed_ = seed0, !.engine_ = RNG(seed0).engine_,
                       !.advance_count_ = 0],
           advances)

MaxDraws == 3

RECURSIVE Outputs(_, _)
\* the next n values next_u32 returns
Outputs(rng, n) ==
    IF n = 0 THEN << >>
    ELSE LET d == next_u32(rng, "u32") IN <<d.v>> \o Outputs(d.rng, n - 1)

\* RNG r(seed); RNG copy(0);
RngInit ==
    /\ seed \in 0 .. MaxSeed
    /\ hi_first \in BOOLEAN
    /\ rngs = <<RNG(seed), RNG(0)>>
    /\ run = 1
    /\ plates_ = << >>
    /\ plate_map = << >>
    /\ iter = 0
    /\ drop = NoDrop
    /\ entering = NoMap
    /\ maps = << >>
    /\ oob = FALSE
    /\ config = TerrainConfig(1, 1, 400, 1, 0)
    /\ pc = "idle"
    /\ elevation = NoMap
    /\ temperature = NoMap
    /\ moisture = NoMap
    /\ OceanIdle
    /\ BiomeIdle
    /\ RendererIdle
    /\ CoreIdle

\* the variables outside the RNG machine
beside_rng ==
    <<config, seed, hi_first, run, plates_, plate_map, elevation, iter, drop, entering,
      temperature, moisture, maps, ocean, oob, cell, biome, biome_map, renderer, frames,
      beside_planet>>

\* r.next_u32(), r.next_float(), r.next_u64()
Draw(method) ==
    /\ Len(rngs[1].log) < MaxDraws
    /\ rngs' = [rngs EXCEPT ![1] =
                   IF method = "u32" THEN next_u32(@, method).rng
                   ELSE IF method = "float" THEN next_float(@, method).rng
                   ELSE next_u64(@, hi_first, method).rng]
    /\ pc' = "drawn"
    /\ UNCHANGED beside_rng

\* r.restore(s, advances)
Replay(s, advances) ==
    /\ rngs' = [rngs EXCEPT ![1] = restore(@, s, advances)]
    /\ pc' = "replayed"
    /\ UNCHANGED beside_rng

\* auto [s, n] = r.state(); copy.restore(s, n);
RestoreCopy ==
    /\ rngs' = [rngs EXCEPT ![2] = restore(@, state(rngs[1])[1], state(rngs[1])[2])]
    /\ pc' = "restored"
    /\ UNCHANGED beside_rng

RngNext ==
    \/ \E method \in {"u32", "float", "u64"} : Draw(method)
    \/ \E s \in 0 .. MaxSeed, advances \in 0 .. MaxDraws : Replay(s, advances)
    \/ RestoreCopy

RngSpec == RngInit /\ [][RngNext]_vars

\* C24: for an RNG r that has made any number of draws, a second RNG restored with
\* the pair returned by r.state() produces the same subsequent sequence of values
\* as r.
C24_RestoredSameSequence ==
    pc = "restored" => Outputs(rngs[2], MaxDraws) = Outputs(rngs[1], MaxDraws)

\* ------------------------------------------------------------------------
\* Registry (core/ecs/Registry.h) and EntityID (core/ecs/EntityID.h)
\* ------------------------------------------------------------------------
\* the unique part of an EntityID: 56 bits in the code, 8 here; next_id_ stays far
\* below either
IdMod == 2 ^ 8
\* EntityID::create(layer, unique_id): (u64(layer) << 56) | (unique_id & mask)
create(layer, unique_id) == layer * IdMod + (unique_id % IdMod)
\* eid.layer(): value >> 56
layer_of(eid) == eid \div IdMod

\* a map with the entry k -> v set
Put(map, k, v) == [x \in DOMAIN map \cup {k} |-> IF x = k THEN v ELSE map[x]]
\* a map with the entry of k erased
Erase(map, k) == [x \in DOMAIN map \ {k} |-> map[x]]

\* registry_.create(): entt hands out a handle that no living entity has, and
\* recycles the handles of destroyed ones
entt_create(r) == CHOOSE h \in 0 .. Cardinality(DOMAIN r.entt_to_id_) : h \notin DOMAIN r.entt_to_id_

\* a create_entity that takes the recycled entt handle as the unique id
create_entity_by_handle(r, layer) ==
    LET entt_handle == entt_create(r)
        eid == create(layer, entt_handle + 1)
    IN  [eid |-> eid,
         registry |-> [r EXCEPT !.next_id_ = @ + 1,
                                !.id_to_entt_ = Put(@, eid, entt_handle),
                                !.entt_to_id_ = Put(@, entt_handle, eid)]]
\* registry.create_entity(layer): the id it returns and the registry it leaves
create_entity(r, layer) ==
    LET entt_handle == entt_create(r)
        eid == create(layer, r.next_id_)
    IN  [eid |-> eid,
         registry |-> [r EXCEPT !.next_id_ = @ + 1,
                                !.id_to_entt_ = Put(@, eid, entt_handle),
                                !.entt_to_id_ = Put(@, entt_handle, eid)]]

\* registry.destroy_entity(eid)
destroy_entity(r, eid) ==
    IF eid \notin DOMAIN r.id_to_entt_ THEN r
    ELSE [r EXCEPT !.entt_to_id_ = Erase(@, r.id_to_entt_[eid]),
                   !.id_to_entt_ = Erase(@, eid)]

is_alive(r, eid) == eid \in DOMAIN r.id_to_entt_
entity_count(r) == Cardinality(DOMAIN r.id_to_entt_)
entity_count_in_layer(r, layer) ==
    Cardinality({ eid \in DOMAIN r.id_to_entt_ : layer_of(eid) = layer })

MaxEntities == 3

\* the variables outside the Registry machine
beside_registry ==
    <<config, seed, hi_first, run, pc, rngs, plates_, plate_map, elevation, iter, drop,
      entering, temperature, moisture, maps, ocean, oob, cell, biome, biome_map, renderer,
      frames, hm, other, writer, calls, prev, bus, scheduler, tick_count_, received,
      emitted, trail>>

RegistryInit == PlanetIdle /\ HeightmapIdle

\* the three containers of a registry
Containers(r) ==
    [id_to_entt_ |-> r.id_to_entt_, entt_to_id_ |-> r.entt_to_id_, next_id_ |-> r.next_id_]

\* auto eid = registry.create_entity(layer);
CreateEntity(layer) ==
    /\ registry.next_id_ <= MaxEntities
    /\ LET out == create_entity(registry, layer)
       IN  registry' = [out.registry EXCEPT
                           !.created = Append(@, [eid |-> out.eid, layer |-> layer]),
                           !.destroyed = @ \ {out.eid},
                           !.last = "create", !.arg = out.eid,
                           !.before = Containers(registry)]
    /\ UNCHANGED beside_registry

\* the ids a caller can hold: those create_entity returned, the null id and the id
\* the next create_entity would return for the layer
Known(layer) ==
    { registry.created[i].eid : i \in DOMAIN registry.created }
        \cup {0, create(layer, registry.next_id_)}

\* registry.destroy_entity(eid);
DestroyEntity(eid) ==
    /\ registry' = [destroy_entity(registry, eid) EXCEPT
                       !.destroyed = IF is_alive(registry, eid) THEN @ \cup {eid} ELSE @,
                       !.last = "destroy", !.arg = eid,
                       !.before = Containers(registry)]
    /\ UNCHANGED beside_registry

\* LayerID::Cosmological, Biological and Divine
Layers == {0, 2, 4}

RegistryNext ==
    \/ \E layer \in Layers : CreateEntity(layer)
    \/ \E layer \in Layers : \E eid \in Known(layer) : DestroyEntity(eid)

RegistrySpec == RegistryInit /\ [][RegistryNext]_vars

CreatedIds == { registry.created[i].eid : i \in DOMAIN registry.created }
RECURSIVE SumInLayers(_, _)
\* entity_count_in_layer summed over the layers below n
SumInLayers(r, n) ==
    IF n = 0 THEN 0 ELSE entity_count_in_layer(r, n - 1) + SumInLayers(r, n - 1)

\* C25: after any sequence of create_entity and destroy_entity calls every created
\* EntityID differs from every ID created before it and decodes to the layer it was
\* created in, is_alive(e) holds exactly when e was created and not destroyed since,
\* entity_count() is the number of alive entities and the sum of
\* entity_count_in_layer over all layers, and destroying an ID that is not alive
\* changes nothing.
C25_RegistryLifecycle ==
    /\ \A i, j \in DOMAIN registry.created :
          i < j => registry.created[i].eid # registry.created[j].eid
    /\ \A i \in DOMAIN registry.created :
          layer_of(registry.created[i].eid) = registry.created[i].layer
    /\ \A layer \in Layers : \A eid \in Known(layer) :
          is_alive(registry, eid) <=> (eid \in CreatedIds /\ eid \notin registry.destroyed)
    /\ entity_count(registry) = Cardinality(CreatedIds \ registry.destroyed)
    /\ entity_count(registry) = SumInLayers(registry, COUNT)
    /\ registry.last = "destroy" /\ registry.arg \notin DOMAIN registry.before.id_to_entt_ =>
          Containers(registry) = registry.before

\* three entities created in two layers, one of them destroyed, and then a destroy
\* of an id that is not alive
C25_Witness ==
    /\ Len(registry.created) = 3
    /\ \E i, j \in DOMAIN registry.created :
          registry.created[i].layer # registry.created[j].layer
    /\ Cardinality(registry.destroyed) = 1
    /\ entity_count(registry) = 2
    /\ registry.last = "destroy"
    /\ registry.arg \in registry.destroyed

\* ------------------------------------------------------------------------
\* apply_erosion on its own, on grids wide enough for a droplet to live
\* ------------------------------------------------------------------------
ErosionWidth == 5
ErosionHeight == 3
MaxDroplets == 2

\* the grids entering apply_erosion: a valley, a slope and a plain, running along x
ErosionGrids ==
    LET n == ErosionWidth * ErosionHeight
        mid == ErosionWidth \div 2
        Grid(Cell(_)) == [width_ |-> ErosionWidth, height_ |-> ErosionHeight,
                          data_ |-> [i \in 0 .. n - 1 |-> Cell(i % ErosionWidth)]]
        Valley(x) == (IF x < mid THEN mid - x ELSE x - mid) * S
        Slope(x) == x * (S \div 5)
        Plain(x) == S \div 2
    IN  {Grid(Valley), Grid(Slope), Grid(Plain)}

\* TerrainGenerator gen(rng); the grid as stage 3 left it, before apply_erosion
ErosionInit ==
    /\ config \in {TerrainConfig(ErosionWidth, ErosionHeight, 400, 1, ei) :
                     ei \in 0 .. MaxDroplets}
    /\ seed \in Seeds
    /\ hi_first = TRUE
    /\ run = 1
    /\ pc = "apply_erosion"
    /\ rngs = <<RNG(seed), RNG(seed)>>
    /\ plates_ = << >>
    /\ plate_map = << >>
    /\ elevation \in ErosionGrids
    /\ iter = 0
    /\ drop = NoDrop
    /\ entering = NoMap
    /\ temperature = NoMap
    /\ moisture = NoMap
    /\ maps = << >>
    /\ oob = FALSE
    /\ OceanIdle
    /\ BiomeIdle
    /\ RendererIdle
    /\ CoreIdle

ErosionNext ==
    \/ ErosionDrop
    \/ ErosionStep
    \/ SeaLevelRemap

ErosionSpec == ErosionInit /\ [][ErosionNext]_vars

\* the direction of the droplet's next move before it is normalised, and its length
drop_direction(g, d) ==
    LET ix == d.px \div S
        iy == d.py \div S
        gx == FMul(get(g, ix + 1, iy) - get(g, ix - 1, iy), 500)
        gy == FMul(get(g, ix, iy + 1) - get(g, ix, iy - 1), 500)
        x == FMul(d.dir_x, 300) - FMul(gx, S - 300)
        y == FMul(d.dir_y, 300) - FMul(gy, S - 300)
    IN  [x |-> x, y |-> y, len |-> ISqrt(x * x + y * y)]

\* the integer cell lies in [1, w-2] x [1, h-2]
InInterior(g, ix, iy) == 1 <= ix /\ ix <= g.width_ - 2 /\ 1 <= iy /\ iy <= g.height_ - 2

\* the droplet's current cell or its next cell has left the interior, or its
\* direction has no length
MustEnd(g, d) ==
    \/ ~InInterior(g, d.px \div S, d.py \div S)
    \/ LET dir == drop_direction(g, d)
       IN  \/ dir.len < 1
           \/ ~InInterior(g, (d.px + (dir.x * S) \div dir.len) \div S,
                             (d.py + (dir.y * S) \div dir.len) \div S)

\* the droplets started and the steps left to the live one
ErosionLeft ==
    (config.erosion_iterations - iter) * (MaxLifetime + 2)
    + (IF drop.alive THEN MaxLifetime + 1 - drop.step ELSE 0)

\* C26: every droplet of apply_erosion ends after at most 50 steps, and ends earlier
\* exactly when its current or next integer cell leaves the interior
\* [1, w-2] x [1, h-2] or its direction length falls below 1e-6; apply_erosion
\* ends after exactly erosion_iterations droplets, simulated one after another on
\* the shared grid.
C26_DropletsEnd ==
    [][pc = "apply_erosion" =>
          /\ drop'.step <= MaxLifetime
          /\ drop.alive /\ drop.step = MaxLifetime => ~drop'.alive
          /\ drop.alive /\ drop.step < MaxLifetime =>
                (~drop'.alive <=> MustEnd(elevation, drop))
          /\ drop.alive /\ drop'.alive => iter' = iter /\ drop'.step = drop.step + 1
          /\ iter' # iter => ~drop.alive /\ drop'.alive /\ iter' = iter + 1
          /\ ErosionLeft' >= 0
          /\ pc' = "apply_erosion" => ErosionLeft' < ErosionLeft
          /\ pc' # "apply_erosion" =>
                iter = config.erosion_iterations /\ ~drop.alive]_vars

\* the second droplet has made all its 50 steps on the grid the first one left
C26_Witness ==
    /\ pc = "apply_erosion"
    /\ iter = 2
    /\ drop.alive
    /\ drop.step = MaxLifetime

\* ------------------------------------------------------------------------
\* apply_mountain_ridges on its own: the ridge pass, then the blur
\* ------------------------------------------------------------------------
RidgeWidth == 4
RidgeHeight == 4

\* plate maps of two plates divided along a column, a row or a diagonal (a column
\* of 0 leaves one plate)
RidgePlateMaps ==
    LET n == RidgeWidth * RidgeHeight
        Map(InFirst(_, _)) ==
            [i \in 0 .. n - 1 |-> IF InFirst(i % RidgeWidth, i \div RidgeWidth) THEN 0 ELSE 1]
    IN  { LET ByColumn(x, y) == x < c IN Map(ByColumn) : c \in 0 .. RidgeWidth - 1 }
        \cup { LET ByRow(x, y) == y < r IN Map(ByRow) : r \in 1 .. RidgeHeight - 1 }
        \cup { LET ByDiagonal(x, y) == x + y < k IN Map(ByDiagonal) :
                 k \in 1 .. RidgeWidth + RidgeHeight - 2 }

\* the map and the grid as stages 1 and 2 left them
RidgeInit ==
    /\ config = TerrainConfig(RidgeWidth, RidgeHeight, 400, 2, 0)
    /\ seed \in Seeds
    /\ hi_first \in BOOLEAN
    /\ run = 1
    /\ pc = "apply_mountain_ridges"
    /\ rngs = <<RNG(seed), RNG(seed)>>
    /\ plates_ = << >>
    /\ plate_map \in RidgePlateMaps
    /\ elevation = Heightmap(RidgeWidth, RidgeHeight, S \div 2)
    /\ iter = 0
    /\ drop = NoDrop
    /\ entering = NoMap
    /\ temperature = NoMap
    /\ moisture = NoMap
    /\ maps = << >>
    /\ oob = FALSE
    /\ OceanIdle
    /\ BiomeIdle
    /\ RendererIdle
    /\ CoreIdle

\* PerlinNoise ridge_noise(rng_.next_u64()); and the two loops over the interior
AddRidges ==
    /\ pc = "apply_mountain_ridges"
    /\ LET r == next_u64(Rng, hi_first, "ridge_noise")
       IN  /\ elevation' = add_ridges(elevation, plate_map, config, PerlinNoise(r.v))
           /\ SetRng(r.rng)
    /\ entering' = elevation
    /\ pc' = "blur"
    /\ UNCHANGED <<config, seed, hi_first, run, plates_, plate_map, iter, drop,
                   temperature, moisture, maps, beside_pipeline, oob>>

\* elevation.blur(2);
BlurRidges ==
    /\ pc = "blur"
    /\ elevation' = blur(elevation, 2)
    /\ pc' = "apply_erosion"
    /\ UNCHANGED <<config, seed, hi_first, run, rngs, plates_, plate_map, iter, drop,
                   entering, temperature, moisture, maps, beside_pipeline, oob>>

RidgeNext == AddRidges \/ BlurRidges

RidgeSpec == RidgeInit /\ [][RidgeNext]_vars

\* the neighbours of cell i that lie on the grid
OnGrid4(cfg, i) ==
    (IF CellX(cfg, i) > 0 THEN {i - 1} ELSE {})
        \cup (IF CellX(cfg, i) < cfg.width - 1 THEN {i + 1} ELSE {})
        \cup (IF CellY(cfg, i) > 0 THEN {i - cfg.width} ELSE {})
        \cup (IF CellY(cfg, i) < cfg.height - 1 THEN {i + cfg.width} ELSE {})
\* one of the 4 neighbours of the cell belongs to a different plate
TouchesOtherPlate(i) == \E n \in OnGrid4(config, i) : plate_map[n] # plate_map[i]
\* the cell has all four neighbours
Inner(i) ==
    /\ 1 <= CellX(config, i) /\ CellX(config, i) <= config.width - 2
    /\ 1 <= CellY(config, i) /\ CellY(config, i) <= config.height - 2
\* the ridged noise of the cell, scaled by mountain_scale
RidgeAt(i) ==
    LET ridge_noise == PerlinNoise(next_u64(Rng, hi_first, "ridge_noise").v)
        nx == Frac(CellX(config, i), config.width)
        ny == Frac(CellY(config, i), config.height)
    IN  FMul(ridged(ridge_noise, FMul(nx, 8 * S), FMul(ny, 8 * S), 5, S, 600, 2 * S),
             config.mountain_scale)

\* C27 as stated: the ridge pass flags a cell exactly when one of its 4 neighbours
\* belongs to a different plate, and before the blur adds ridged noise scaled by
\* mountain_scale to every such cell and to no other cell.
C27_RidgesAtEveryBoundaryCell ==
    [][pc = "apply_mountain_ridges" =>
          \A i \in Cells(config) :
              elevation'.data_[i] =
                  elevation.data_[i] + (IF TouchesOtherPlate(i) THEN RidgeAt(i) ELSE 0)]_vars

\* C27 amended: among the cells that have all four neighbours (1 <= x <= w-2,
\* 1 <= y <= h-2) the ridge pass flags a cell exactly when one of its 4 neighbours
\* belongs to a different plate, and before the blur adds ridged noise scaled by
\* mountain_scale to every flagged cell and to no other cell; the cells of the
\* outermost rows and columns are never flagged.
C27_RidgesAtInnerBoundaryCells ==
    [][pc = "apply_mountain_ridges" =>
          \A i \in Cells(config) :
              /\ (i \in Interior(config) /\ is_boundary(plate_map, config, i))
                     <=> (Inner(i) /\ TouchesOtherPlate(i))
              /\ elevation'.data_[i] =
                     elevation.data_[i]
                         + (IF Inner(i) /\ TouchesOtherPlate(i) THEN RidgeAt(i) ELSE 0)]_vars

\* the ridge pass has run, before the blur: an inner cell on a plate boundary was
\* raised, an inner cell away from the boundary and an outer cell on the boundary
\* were left as they were
C27_Witness ==
    /\ pc = "blur"
    /\ \E i, j, k \in Cells(config) :
          /\ Inner(i) /\ TouchesOtherPlate(i) /\ elevation.data_[i] # entering.data_[i]
          /\ Inner(j) /\ ~TouchesOtherPlate(j) /\ elevation.data_[j] = entering.data_[j]
          /\ ~Inner(k) /\ TouchesOtherPlate(k) /\ elevation.data_[k] = entering.data_[k]

RECURSIVE SumCells(_, _)
\* the sum of the cells of a grid from index i on
SumCells(d, i) == IF i \notin DOMAIN d THEN 0 ELSE d[i] + SumCells(d, i + 1)

\* the flat index of the droplet's current integer cell
CurrentCell == index(elevation, drop.px \div S, drop.py \div S)

C29_NoOceanNoProximityMoisture ==
    (Flat /\ pc = "done") =>
        LET ocean_dist == compute_ocean_distance(elevation, ClimateConfig(config.sea_level))
        IN  \A i \in DOMAIN moisture.data_ :
                /\ ocean_dist.data_[i] = 0 - S
                /\ ocean_factor(ocean_dist.data_[i], elevation.width_, elevation.height_) = 0

\* config.base_temp - config.temp_range * 0.5f * (latitude * latitude) of row y
LatTemp(cfg, y, h) ==
    cfg.base_temp - FMul(FMul(cfg.temp_range, 500), FMul(latitude(y, h), latitude(y, h)))

\* C30: the latitude used by generate_temperature and generate_moisture is
\* symmetric about the equator: rows y and height-1-y get the same latitude, so the
\* top row and the bottom row are both at latitude 1 and get the same
\* latitude-based temperature.
C30_LatitudeSymmetric ==
    pc \in {"generate_moisture", "done"} =>
        LET h == elevation.height_
            cfg == ClimateConfig(config.sea_level)
        IN  /\ \A y \in 0 .. h - 1 : latitude(y, h) = latitude(h - 1 - y, h)
            /\ latitude(0, h) = S
            /\ latitude(h - 1, h) = S
            /\ LatTemp(cfg, 0, h) = LatTemp(cfg, h - 1, h)

====
